---- MODULE Spec2Model ----
(***************************************************************************)
(* State-machine model of the ticket engine of ticket-mcp (src/src/server.ts) *)
(* The store is the directory tree of ticket files; every tool handler is   *)
(* one action.  Header values are JavaScript values, kept with their type   *)
(* (undefined, null, string, number, boolean, list) so that truthiness      *)
(* tests in the validator behave as they do in the code.                    *)
(***************************************************************************)
EXTENDS Integers, Sequences, FiniteSets, TLC

VARIABLES files, strictMode, result, reconcileTargets, handled, requests,
          indexFile, regenerations, swallowed, getParams, relocating, clients

vars == <<files, strictMode, result, reconcileTargets, handled, requests,
          indexFile, regenerations, swallowed,
         getParams, relocating, clients>>

(***************************************************************************)
(* Bounds of the model.                                                    *)
(***************************************************************************)
\* number of requests the clients send a server started on any store
MaxRequests == 1

\* number of requests the clients send a strict server started on a valid store
MaxStrictRequests == 2

\* number of requests the clients send a server whose index regenerations run
MaxIndexedRequests == 2

\* number of tickets.append_worklog requests the clients send
MaxAppends == 2

\* number of tickets.claim requests the clients send concurrently
MaxClaims == 2

\* number of clients that follow the README workflow at the same time
MaxClients == 2

\* number of relocating requests (move, claim, reconcile) the server is sent
MaxRelocations == 1

(***************************************************************************)
(* JavaScript values.                                                      *)
(***************************************************************************)
Undefined == [t |-> "undefined", s |-> "", l |-> <<>>]
Null == [t |-> "null", s |-> "", l |-> <<>>]
Str(x) == [t |-> "string", s |-> x, l |-> <<>>]
Num(x) == [t |-> "number", s |-> x, l |-> <<>>]
Bool(x) == [t |-> "boolean", s |-> x, l |-> <<>>]
List(q) == [t |-> "list", s |-> "", l |-> q]

\* JavaScript truthiness: undefined, null, "", 0 and false are falsy; arrays are truthy
Truthy(v) ==
  CASE v.t = "undefined" -> FALSE
    [] v.t = "null" -> FALSE
    [] v.t = "string" -> v.s # ""
    [] v.t = "number" -> v.s # "0"
    [] v.t = "boolean" -> v.s = "true"
    [] OTHER -> TRUE

\* String(value)
String(v) ==
  CASE v.t = "undefined" -> "undefined"
    [] v.t = "null" -> "null"
    [] v.t = "list" -> "<list>"
    [] OTHER -> v.s

IsArray(v) == v.t = "list"

(***************************************************************************)
(* Strings.                                                                *)
(***************************************************************************)
StartsWith(a, b) == Len(b) <= Len(a) /\ SubSeq(a, 1, Len(b)) = b

IsSpace(c) == c \in {" ", "\n", "\t"}

RECURSIVE trimStart(_)
trimStart(x) ==
  IF Len(x) > 0 /\ IsSpace(SubSeq(x, 1, 1)) THEN trimStart(SubSeq(x, 2, Len(x))) ELSE x

RECURSIVE trimEnd(_)
trimEnd(x) ==
  IF Len(x) > 0 /\ IsSpace(SubSeq(x, Len(x), Len(x)))
  THEN trimEnd(SubSeq(x, 1, Len(x) - 1))
  ELSE x

trim(x) == trimEnd(trimStart(x))

(***************************************************************************)
(* Schema (src/src/schema.ts) and the tables of server.ts.                 *)
(***************************************************************************)
TicketStatusValues ==
  <<"pending", "in_progress", "blocked", "awaiting_human_test", "done", "archived">>

WorkLogKindValues ==
  <<"claim", "analysis", "change", "command", "handoff", "blocker", "note">>

Range(q) == {q[i] : i \in 1..Len(q)}

Statuses == Range(TicketStatusValues)

Folders == {"pending", "in_progress", "awaiting_human_test", "done", "archive"}

\* STATUS_TO_FOLDER[status]; "" stands for undefined (no such key)
STATUS_TO_FOLDER(status) ==
  CASE status = "pending" -> "pending"
    [] status = "in_progress" -> "in_progress"
    [] status = "blocked" -> "in_progress"
    [] status = "awaiting_human_test" -> "awaiting_human_test"
    [] status = "done" -> "done"
    [] status = "archived" -> "archive"
    [] OTHER -> ""

FOLDER_TO_STATUS(folder) ==
  CASE folder = "pending" -> <<"pending">>
    [] folder = "in_progress" -> <<"in_progress", "blocked">>
    [] folder = "awaiting_human_test" -> <<"awaiting_human_test">>
    [] folder = "done" -> <<"done">>
    [] folder = "archive" -> <<"archived">>
    [] OTHER -> <<>>

\* the seventeen header keys, epic among them
ALL_HEADER_FIELDS ==
  <<"id", "title", "status", "created_at", "updated_at", "area", "epic", "key_files",
    "intent", "requirements", "human_testing_steps", "constraints", "depends_on",
    "claimed_by", "claimed_at", "work_log", "review_notes">>

REQUIRED_FIELDS ==
  <<"id", "title", "status", "created_at", "updated_at", "area", "key_files",
    "intent", "requirements", "human_testing_steps", "constraints", "depends_on",
    "claimed_by", "claimed_at", "work_log", "review_notes">>

\* the key order orderFrontmatter writes; "feature" stands for the rest keys
CanonicalOrder ==
  <<"id", "title", "status", "created_at", "updated_at", "area", "epic", "key_files",
    "intent", "requirements", "human_testing_steps", "constraints", "depends_on",
    "claimed_by", "claimed_at", "work_log", "review_notes", "feature">>

Keys == Range(CanonicalOrder)

REQUIRED_BODY_HEADERS ==
  <<"## Overview", "## Approach (medium/high-level)", "## Tasks / Todos",
    "## Requirements (AI implementation)", "## Human Testing Steps",
    "## Key Files / Areas (notes)", "## Questions", "## Blockers",
    "## Implementation Notes">>

(***************************************************************************)
(* Ticket text.  A file is the text writeTicket produces or a user wrote:  *)
(* a header (the YAML document as its sequence of key/value lines, or      *)
(* malformed YAML) and the text below the closing delimiter.  A body is    *)
(* kept as its leading whitespace, its first line and the set of section   *)
(* headings that occur in it.                                              *)
(***************************************************************************)
Body(lead, first, heads) == [lead |-> lead, first |-> first, heads |-> heads]

\* body.includes(header)
includes(body, header) == header \in body.heads

\* body.trimStart()
bodyTrimStart(body) == [body EXCEPT !.lead = ""]

\* body.trim().length > 0
bodyNonBlank(body) == body.first # "" \/ body.heads # {}

\* a template with the title alone
defaultBodyBare(title) == Body("", "# " \o title, {})

defaultBody(title) == Body("", "# " \o title, Range(REQUIRED_BODY_HEADERS))

EmptyFrontmatter == [k \in Keys |-> Undefined]

\* a work_log entry; a field that is absent is kept as "" (both are falsy, and
\* YAML.stringify drops an undefined field)
Entry(at, actor, kind, summary) ==
  [at |-> at, actor |-> actor, kind |-> kind, summary |-> summary]

(***************************************************************************)
(* Frontmatter codec.                                                      *)
(***************************************************************************)
\* orderFrontmatter: the values in canonical key order (undefined ones included)
orderFrontmatter(frontmatter) ==
  [i \in 1..Len(CanonicalOrder) |-> <<CanonicalOrder[i], frontmatter[CanonicalOrder[i]]>>]

\* a serializer that also leaves out the keys whose value is null
YAMLstringifyValued(ordered) == SelectSeq(ordered, LAMBDA kv : kv[2].t \notin {"undefined", "null"})

\* YAML.stringify: one line per key whose value is not undefined
YAMLstringify(ordered) == SelectSeq(ordered, LAMBDA kv : kv[2].t # "undefined")

\* YAML.parse: the mapping the lines denote
YAMLparse(yaml) ==
  [k \in Keys |->
    IF \E i \in 1..Len(yaml) : yaml[i][1] = k
    THEN yaml[CHOOSE i \in 1..Len(yaml) : yaml[i][1] = k][2]
    ELSE Undefined]

\* the text of a file: header lines, whether the header is malformed YAML, and
\* the text after the closing delimiter
FileText(yaml, malformed, body) == [yaml |-> yaml, malformed |-> malformed, body |-> body]

\* parseFrontmatter: the closing-delimiter pattern ends in \s*\n?, which takes
\* all whitespace that follows the header
parseFrontmatter(raw) ==
  [frontmatter |-> IF raw.malformed THEN EmptyFrontmatter ELSE YAMLparse(raw.yaml),
   body |-> bodyTrimStart(raw.body),
   error |-> IF raw.malformed THEN "YAML parse error" ELSE ""]

normalizeFrontmatter(frontmatter) ==
  IF ~Truthy(frontmatter.epic) /\ Truthy(frontmatter.feature)
  THEN [frontmatter EXCEPT !.epic = frontmatter.feature]
  ELSE frontmatter

\* the file content writeTicket writes
ticketContent(frontmatter, body) ==
  FileText(YAMLstringify(orderFrontmatter(frontmatter)), FALSE, bodyTrimStart(body))

(***************************************************************************)
(* Paths.  A path is <<directory, relative name>>; the directory is one of *)
(* the five status folders under the tickets root, or any other place.     *)
(***************************************************************************)
Elsewhere == "elsewhere"

Names == {"a.md", "b.md"}

NoPath == <<"", "">>

\* the file a path names: an absolute path is used as the caller spelled it, and
\* the file system (like path.relative and path.join) drops a "./" segment
fileAt(filePath) ==
  IF StartsWith(filePath[2], "./")
  THEN <<filePath[1], SubSeq(filePath[2], 3, Len(filePath[2]))>>
  ELSE filePath

\* getStatusFolder; "" stands for null
getStatusFolder(filePath) == IF filePath[1] \in Folders THEN filePath[1] ELSE ""

\* ticketRelativePath; "" stands for null
ticketRelativePath(filePath) ==
  IF getStatusFolder(filePath) = "" THEN "" ELSE fileAt(filePath)[2]

\* resolvePathForStatus; NoPath stands for null
resolvePathForStatus(filePath, status) ==
  IF STATUS_TO_FOLDER(status) = "" \/ ticketRelativePath(filePath) = ""
  THEN NoPath
  ELSE <<STATUS_TO_FOLDER(status), ticketRelativePath(filePath)>>

\* an inference that takes a ticket of the in_progress folder for blocked
inferBlockedFromPath(filePath) ==
  IF getStatusFolder(filePath) = "" THEN ""
  ELSE IF getStatusFolder(filePath) = "in_progress" THEN "blocked"
  ELSE FOLDER_TO_STATUS(getStatusFolder(filePath))[1]

\* inferStatusFromPath; "" stands for null
inferStatusFromPath(filePath) ==
  IF getStatusFolder(filePath) = "" THEN ""
  ELSE IF getStatusFolder(filePath) = "in_progress" THEN "in_progress"
  ELSE IF Len(FOLDER_TO_STATUS(getStatusFolder(filePath))) = 0 THEN ""
  ELSE FOLDER_TO_STATUS(getStatusFolder(filePath))[1]

(***************************************************************************)
(* Validator.                                                              *)
(***************************************************************************)
\* Date.parse accepts the ISO form YYYY-MM-DD...; every other text of the model is NaN
isValidDate(value) ==
  /\ value.t = "string"
  /\ Len(value.s) >= 10
  /\ SubSeq(value.s, 5, 5) = "-"
  /\ SubSeq(value.s, 8, 8) = "-"
  /\ SubSeq(value.s, 1, 2) = "20"

IsStatus(value) == value.t = "string" /\ value.s \in Statuses

suggestStatus(value) ==
  LET normalized == trim(value)
      hits == SelectSeq(TicketStatusValues,
                LAMBDA st : StartsWith(st, normalized) \/ StartsWith(normalized, st))
  IN IF normalized = "" \/ Len(hits) = 0 THEN "" ELSE hits[1]

formatInvalidStatus(value) ==
  LET raw == String(value)
      suggestion == suggestStatus(raw)
  IN IF suggestion # "" /\ suggestion # raw
     THEN "Invalid status: " \o raw \o ". Did you mean " \o suggestion \o "?"
     ELSE "Invalid status: " \o raw \o "."

If(cond, issue) == IF cond THEN <<issue>> ELSE <<>>

\* the issues of one work_log entry
entryIssues(record) ==
  If(record.at = "", "work_log entry missing at")
  \o If(record.actor = "", "work_log entry missing actor")
  \o If(record.kind = "", "work_log entry missing kind")
  \o If(record.summary = "", "work_log entry missing summary")
  \o If(record.kind # "" /\ record.kind \notin Range(WorkLogKindValues),
        "Invalid work_log kind: " \o record.kind)

RECURSIVE entriesIssues(_)
entriesIssues(entries) ==
  IF Len(entries) = 0 THEN <<>>
  ELSE entryIssues(Head(entries)) \o entriesIssues(Tail(entries))

validateWorkLog(workLog) ==
  IF ~IsArray(workLog) THEN <<"work_log must be a list">> ELSE entriesIssues(workLog.l)

\* a check that finds every status at home in every folder
validateFolderStatusOff(status, filePath) == <<>>

\* validateFolderStatus, as a list of zero or one issue
validateFolderStatus(status, filePath) ==
  IF ~Truthy(status) THEN <<>>
  ELSE IF getStatusFolder(filePath) = "" THEN <<>>
  ELSE IF String(status) \notin Range(FOLDER_TO_STATUS(getStatusFolder(filePath)))
       THEN <<"Folder/status mismatch: " \o getStatusFolder(filePath) \o " vs " \o String(status)>>
       ELSE <<>>

StringOrNull(value) == value.t \in {"undefined", "null", "string"}

validateTicket(frontmatter, body, filePath) ==
  LET missing == SelectSeq(REQUIRED_FIELDS, LAMBDA f : frontmatter[f].t = "undefined")
      absent == SelectSeq(REQUIRED_BODY_HEADERS, LAMBDA h : ~includes(body, h))
  IN [i \in 1..Len(missing) |-> "Missing required field: " \o missing[i]]
     \o [i \in 1..Len(absent) |-> "Missing required markdown section: " \o absent[i]]
     \o If(Truthy(frontmatter.status) /\ ~IsStatus(frontmatter.status),
           formatInvalidStatus(frontmatter.status))
     \o (IF Truthy(frontmatter.work_log) THEN validateWorkLog(frontmatter.work_log) ELSE <<>>)
     \o validateFolderStatus(frontmatter.status, filePath)
     \o If(Truthy(frontmatter.created_at) /\ ~isValidDate(frontmatter.created_at),
           "Invalid created_at timestamp")
     \o If(Truthy(frontmatter.updated_at) /\ ~isValidDate(frontmatter.updated_at),
           "Invalid updated_at timestamp")
     \o If(Truthy(frontmatter.claimed_at) /\ ~isValidDate(frontmatter.claimed_at),
           "Invalid claimed_at timestamp")
     \o If(Truthy(frontmatter.key_files) /\ ~IsArray(frontmatter.key_files),
           "key_files must be a list")
     \o If(frontmatter.epic.t \notin {"undefined", "null", "string"},
           "epic must be a string when provided")
     \o If(Truthy(frontmatter.requirements) /\ ~IsArray(frontmatter.requirements),
           "requirements must be a list")
     \o If(Truthy(frontmatter.human_testing_steps) /\ ~IsArray(frontmatter.human_testing_steps),
           "human_testing_steps must be a list")
     \o If(Truthy(frontmatter.constraints) /\ ~IsArray(frontmatter.constraints),
           "constraints must be a list")
     \o If(Truthy(frontmatter.depends_on) /\ ~IsArray(frontmatter.depends_on),
           "depends_on must be a list")
     \o If(~StringOrNull(frontmatter.claimed_by), "claimed_by must be string or null")
     \o If(~StringOrNull(frontmatter.review_notes), "review_notes must be string or null")

(***************************************************************************)
(* Ticket store.  A store fs maps each existing path to the file's text.   *)
(***************************************************************************)
\* a test that finds no file
existsNever(fs, filePath) == FALSE

existsSync(fs, filePath) == fileAt(filePath) \in DOMAIN fs

\* the patterns tickets/<folder>/**/*.md
IsMarkdown(name) == Len(name) > 3 /\ SubSeq(name, Len(name) - 2, Len(name)) = ".md"

listTicketFiles(fs) == {filePath \in DOMAIN fs : filePath[1] \in Folders /\ IsMarkdown(filePath[2])}

\* readTicket of an existing file
readTicket(fs, filePath) ==
  LET parsed == parseFrontmatter(fs[fileAt(filePath)])
  IN [path |-> filePath,
      frontmatter |-> normalizeFrontmatter(parsed.frontmatter),
      body |-> parsed.body,
      parseError |-> parsed.error]

\* writeTicket: the store with the file at filePath created or replaced
writeTicket(fs, filePath, frontmatter, body) ==
  [q \in DOMAIN fs \cup {fileAt(filePath)} |->
    IF q = fileAt(filePath) THEN ticketContent(frontmatter, body) ELSE fs[q]]

\* a removal that removes nothing
unlinkNothing(fs, filePath) == fs

\* fs.unlinkSync
unlinkSync(fs, filePath) == [q \in DOMAIN fs \ {fileAt(filePath)} |-> fs[q]]

\* a lookup that finds no ticket
findNoTicket(fs, id) == {}

\* findTicketById returns the first match in the order fast-glob enumerates the
\* files, which is not fixed: any of the matches (none: null)
findTicketById(fs, id) ==
  {filePath \in listTicketFiles(fs) : String(readTicket(fs, filePath).frontmatter.id) = id}

\* request target: path ("" parts: none given) and id ("": none given)
Target(path, id) == [path |-> path, id |-> id]

\* a resolution that falls back on the id when the path names no file
resolveWithFallback(fs, params) ==
  IF params.path # NoPath /\ existsSync(fs, params.path) THEN {params.path}
  ELSE IF params.id # "" THEN findTicketById(fs, params.id)
  ELSE {}

\* resolveTicketPath: the paths it can return (none: null)
resolveTicketPath(fs, params) ==
  IF params.path # NoPath
  THEN (IF existsSync(fs, params.path) THEN {params.path} ELSE {})
  ELSE IF params.id # "" THEN findTicketById(fs, params.id)
  ELSE {}

\* a merge in which the header's values win
applyPatchUnder(frontmatter, patch) ==
  [k \in Keys |-> IF k \in DOMAIN patch /\ frontmatter[k].t = "undefined"
                  THEN patch[k] ELSE frontmatter[k]]

applyFrontmatterPatch(frontmatter, patch) ==
  LET merged == [k \in Keys |-> IF k \in DOMAIN patch THEN patch[k] ELSE frontmatter[k]]
  IN IF Truthy(merged.feature) /\ ~Truthy(merged.epic)
     THEN [merged EXCEPT !.epic = merged.feature]
     ELSE merged

\* the entry put first
prependWorkLog(workLog, entry) ==
  List(<<entry>> \o (IF IsArray(workLog) THEN workLog.l ELSE <<>>))

appendWorkLog(workLog, entry) ==
  List((IF IsArray(workLog) THEN workLog.l ELSE <<>>) \o <<entry>>)

(***************************************************************************)
(* Replies and outcomes.  A handler is a function of the store and its     *)
(* arguments that yields the store it leaves and the reply it returns.     *)
(***************************************************************************)
\* tickets.reconcile's summary, absent from the other replies
NoReport == [apply_fixes |-> FALSE, changed |-> 0, unresolved |-> 0, reports |-> <<>>]

\* what a read-only tool returns besides path and issues (none: <<>>)
NoData == <<>>

Reply(op, ok, error, issues, path) ==
  [op |-> op, ok |-> ok, error |-> error, issues |-> issues, path |-> path,
   report |-> NoReport, data |-> NoData]

Failure(op, error) == Reply(op, FALSE, error, <<>>, NoPath)

Outcome(fs, reply) == [fs |-> fs, reply |-> reply]

\* a gate that lets every candidate through
rejectsNothing(issues) == FALSE

\* the strict-mode gate: if (strictMode && issues.length > 0)
rejects(issues) == strictMode /\ Len(issues) > 0

\* new Date().toISOString() at clock reading k
toISOString(k) == "2026-02-0" \o ToString(k) \o "T00:00:00.000Z"

\* params.work_log_entry / params.entry: <<>> when absent, else <<entry>>
withEntry(frontmatter, entry) ==
  IF Len(entry) > 0
  THEN [frontmatter EXCEPT !.work_log = appendWorkLog(frontmatter.work_log, entry[1])]
  ELSE frontmatter

\* a lookup that answers for a ticket that is not there
foundAnyway(fs, op) == Outcome(fs, Reply(op, TRUE, "", <<>>, NoPath))

\* the outcome of a handler whose target does not resolve
notFound(fs, op) == Outcome(fs, Failure(op, "Ticket not found"))

\* a reply that lets a header that failed to parse pass
parseErrorIgnored(op, record) ==
  Reply(op, TRUE, "", <<>>, record.path)

parseErrorReply(op, record) ==
  Reply(op, FALSE, "Ticket frontmatter parse error", <<record.parseError>>, NoPath)

(***************************************************************************)
(* tickets.update                                                          *)
(***************************************************************************)
\* the candidate frontmatter of updateTicket
updateFrontmatter(record, patch, entry, now) ==
  withEntry([applyFrontmatterPatch(record.frontmatter, patch)
               EXCEPT !.updated_at = Str(toISOString(now))], entry)

updateTicketAt(fs, filePath, patch, entry, now) ==
  LET record == readTicket(fs, filePath)
      updatedFrontmatter == updateFrontmatter(record, patch, entry, now)
      issues == validateTicket(updatedFrontmatter, record.body, filePath)
  IN IF record.parseError # "" THEN Outcome(fs, parseErrorReply("update", record))
     ELSE IF rejects(issues)
     THEN Outcome(fs, Reply("update", FALSE, "Validation failed", issues, NoPath))
     ELSE Outcome(writeTicket(fs, filePath, updatedFrontmatter, record.body),
                  Reply("update", TRUE, "", issues, filePath))

\* updateTicket: the outcomes it can have
updateTicket(fs, params, patch, entry, now) ==
  IF resolveTicketPath(fs, params) = {} THEN {notFound(fs, "update")}
  ELSE {updateTicketAt(fs, filePath, patch, entry, now) : filePath \in resolveTicketPath(fs, params)}

(***************************************************************************)
(* tickets.move                                                            *)
(***************************************************************************)
\* a move that also releases the ticket
moveFrontmatterReleasing(record, targetStatus, entry, now) ==
  withEntry([record.frontmatter EXCEPT !.status = Str(targetStatus),
                                       !.claimed_by = Null,
                                       !.updated_at = Str(toISOString(now))], entry)

moveFrontmatter(record, targetStatus, entry, now) ==
  withEntry([record.frontmatter EXCEPT !.status = Str(targetStatus),
                                       !.updated_at = Str(toISOString(now))], entry)

\* the stores a relocating write passes through: destination written, then
\* source removed if (destination !== filePath)
relocationSteps(fs, filePath, destination, frontmatter, body) ==
  IF destination # filePath
  THEN <<writeTicket(fs, destination, frontmatter, body),
         unlinkSync(writeTicket(fs, destination, frontmatter, body), filePath)>>
  ELSE <<writeTicket(fs, destination, frontmatter, body)>>

\* a write that leaves the file where it was
relocateInPlace(fs, filePath, destination, frontmatter, body) ==
  writeTicket(fs, filePath, frontmatter, body)

\* the store after a relocating write
relocate(fs, filePath, destination, frontmatter, body) ==
  relocationSteps(fs, filePath, destination, frontmatter, body)[
    Len(relocationSteps(fs, filePath, destination, frontmatter, body))]

\* a move with a transition guard: a ticket that is done or archived stays
moveTicketFromOpen(fs, filePath, targetStatus, entry, now) ==
  LET record == readTicket(fs, filePath)
      updatedFrontmatter == moveFrontmatter(record, targetStatus, entry, now)
      destination == resolvePathForStatus(filePath, targetStatus)
      issues == validateTicket(updatedFrontmatter, record.body, destination)
  IN IF targetStatus \notin Statuses
     THEN Outcome(fs, Failure("move", formatInvalidStatus(Str(targetStatus))))
     ELSE IF record.parseError # "" THEN Outcome(fs, parseErrorReply("move", record))
     ELSE IF record.frontmatter.status \in {Str("done"), Str("archived")}
     THEN Outcome(fs, Failure("move", "Ticket is closed"))
     ELSE IF destination = NoPath
     THEN Outcome(fs, Failure("move", "Unable to resolve destination path"))
     ELSE IF rejects(issues)
     THEN Outcome(fs, Reply("move", FALSE, "Validation failed", issues, NoPath))
     ELSE Outcome(relocate(fs, filePath, destination, updatedFrontmatter, record.body),
                  Reply("move", TRUE, "", issues, destination))

moveTicketAt(fs, filePath, targetStatus, entry, now) ==
  LET record == readTicket(fs, filePath)
      updatedFrontmatter == moveFrontmatter(record, targetStatus, entry, now)
      destination == resolvePathForStatus(filePath, targetStatus)
      issues == validateTicket(updatedFrontmatter, record.body, destination)
  IN IF targetStatus \notin Statuses
     THEN Outcome(fs, Failure("move", formatInvalidStatus(Str(targetStatus))))
     ELSE IF record.parseError # "" THEN Outcome(fs, parseErrorReply("move", record))
     ELSE IF destination = NoPath
     THEN Outcome(fs, Failure("move", "Unable to resolve destination path"))
     ELSE IF rejects(issues)
     THEN Outcome(fs, Reply("move", FALSE, "Validation failed", issues, NoPath))
     ELSE Outcome(relocate(fs, filePath, destination, updatedFrontmatter, record.body),
                  Reply("move", TRUE, "", issues, destination))

\* the stores a successful moveTicket passes through
moveTicketStores(fs, filePath, targetStatus, entry, now) ==
  LET record == readTicket(fs, filePath)
  IN relocationSteps(fs, filePath, resolvePathForStatus(filePath, targetStatus),
                     moveFrontmatter(record, targetStatus, entry, now), record.body)

moveTicket(fs, params, targetStatus, entry, now) ==
  IF resolveTicketPath(fs, params) = {} THEN {notFound(fs, "move")}
  ELSE {moveTicketAt(fs, filePath, targetStatus, entry, now) : filePath \in resolveTicketPath(fs, params)}

(***************************************************************************)
(* tickets.claim                                                           *)
(***************************************************************************)
claimSummary(summary) ==
  IF Len(trim(summary)) > 0 THEN trim(summary) ELSE "Claimed ticket for implementation"

claimFrontmatter(record, actor, summary, now) ==
  [record.frontmatter EXCEPT
     !.status = Str("in_progress"),
     !.claimed_by = Str(actor),
     !.claimed_at = Str(toISOString(now)),
     !.updated_at = Str(toISOString(now)),
     !.work_log = appendWorkLog(record.frontmatter.work_log,
                    Entry(toISOString(now), actor, "claim", claimSummary(summary)))]

\* the status named in claim's error: String(status ?? "unknown")
currentStatus(status) ==
  IF status.t \in {"undefined", "null"} THEN "unknown" ELSE String(status)

\* a claim that asks nothing of the status
claimableAlways(status) == TRUE

\* record.frontmatter.status === "pending"
claimable(status) == status = Str("pending")

claimTicketAt(fs, filePath, actorParam, summary, now) ==
  LET actor == trim(actorParam)
      record == readTicket(fs, filePath)
      updatedFrontmatter == claimFrontmatter(record, actor, summary, now)
      destination == resolvePathForStatus(filePath, "in_progress")
      issues == validateTicket(updatedFrontmatter, record.body, destination)
  IN IF actor = "" THEN Outcome(fs, Failure("claim", "Missing actor"))
     ELSE IF record.parseError # "" THEN Outcome(fs, parseErrorReply("claim", record))
     ELSE IF ~claimable(record.frontmatter.status)
     THEN Outcome(fs, Failure("claim", "Ticket must be pending to claim (current status: "
                                        \o currentStatus(record.frontmatter.status) \o ")"))
     ELSE IF destination = NoPath
     THEN Outcome(fs, Failure("claim", "Unable to resolve destination path"))
     ELSE IF rejects(issues)
     THEN Outcome(fs, Reply("claim", FALSE, "Validation failed", issues, NoPath))
     ELSE Outcome(relocate(fs, filePath, destination, updatedFrontmatter, record.body),
                  Reply("claim", TRUE, "", issues, destination))

\* the stores a successful claimTicket passes through
claimTicketStores(fs, filePath, actorParam, summary, now) ==
  LET record == readTicket(fs, filePath)
  IN relocationSteps(fs, filePath, resolvePathForStatus(filePath, "in_progress"),
                     claimFrontmatter(record, trim(actorParam), summary, now), record.body)

\* a claim that also grants a ticket somebody holds: ok, nothing written
claimTicketGranting(fs, params, actorParam, summary, now) ==
  IF resolveTicketPath(fs, params) = {} THEN {Outcome(fs, Reply("claim", TRUE, "", <<>>, NoPath))}
  ELSE {IF claimTicketAt(fs, filePath, actorParam, summary, now).reply.ok
        THEN claimTicketAt(fs, filePath, actorParam, summary, now)
        ELSE Outcome(fs, Reply("claim", TRUE, "", <<>>, filePath))
          : filePath \in resolveTicketPath(fs, params)}

claimTicket(fs, params, actorParam, summary, now) ==
  IF resolveTicketPath(fs, params) = {} THEN {notFound(fs, "claim")}
  ELSE {claimTicketAt(fs, filePath, actorParam, summary, now) : filePath \in resolveTicketPath(fs, params)}

(***************************************************************************)
(* tickets.append_worklog                                                  *)
(***************************************************************************)
\* the entry appended: at defaulted to the clock when absent or blank
defaultedEntry(rawEntry, now) ==
  [rawEntry EXCEPT !.at = IF Len(trim(rawEntry.at)) > 0 THEN rawEntry.at ELSE toISOString(now)]

\* a handler that appends to the work log as it was before any request, not
\* as it reads it
appendFrontmatterStale(record, rawEntry, now, later) ==
  [record.frontmatter EXCEPT
     !.updated_at = Str(toISOString(later)),
     !.work_log = appendWorkLog(List(SubSeq(record.frontmatter.work_log.l, 1, 1)),
                                defaultedEntry(rawEntry, now))]

\* now, later: the two clock readings the handler takes
appendFrontmatter(record, rawEntry, now, later) ==
  [record.frontmatter EXCEPT
     !.updated_at = Str(toISOString(later)),
     !.work_log = appendWorkLog(record.frontmatter.work_log, defaultedEntry(rawEntry, now))]

appendTicketWorklogAt(fs, filePath, entry, now, later) ==
  LET record == readTicket(fs, filePath)
      updatedFrontmatter == appendFrontmatter(record, entry[1], now, later)
      issues == validateTicket(updatedFrontmatter, record.body, filePath)
  IN IF record.parseError # "" THEN Outcome(fs, parseErrorReply("append_worklog", record))
     ELSE IF Len(entry) = 0
     THEN Outcome(fs, Failure("append_worklog", "entry must be an object"))
     ELSE IF rejects(issues)
     THEN Outcome(fs, Reply("append_worklog", FALSE, "Validation failed", issues, NoPath))
     ELSE Outcome(writeTicket(fs, filePath, updatedFrontmatter, record.body),
                  Reply("append_worklog", TRUE, "", issues, filePath))

appendTicketWorklog(fs, params, entry, now, later) ==
  IF resolveTicketPath(fs, params) = {} THEN {notFound(fs, "append_worklog")}
  ELSE {appendTicketWorklogAt(fs, filePath, entry, now, later) : filePath \in resolveTicketPath(fs, params)}

(***************************************************************************)
(* tickets.validate                                                        *)
(***************************************************************************)
\* validateTickets of the whole store: the files the validator reports on
validateTickets(fs) ==
  LET issuesOf(filePath) ==
        LET record == readTicket(fs, filePath)
        IN validateTicket(record.frontmatter, record.body, filePath)
           \o If(record.parseError # "", record.parseError)
  IN {[path |-> filePath, issues |-> issuesOf(filePath)] :
        filePath \in {q \in listTicketFiles(fs) : Len(issuesOf(q)) > 0}}

(***************************************************************************)
(* tickets.create                                                          *)
(***************************************************************************)
\* normalizeStringList of a list of strings: map(String).filter(Boolean)
normalizeStringList(value) == SelectSeq(value, LAMBDA x : x # "")

Lower == "abcdefghijklmnopqrstuvwxyz"
Upper == "ABCDEFGHIJKLMNOPQRSTUVWXYZ"
Digits == "0123456789"

InString(c, str) == \E i \in 1..Len(str) : SubSeq(str, i, i) = c

toLowerCase(c) ==
  IF InString(c, Upper)
  THEN LET i == CHOOSE j \in 1..Len(Upper) : SubSeq(Upper, j, j) = c IN SubSeq(Lower, i, i)
  ELSE c

\* input.toLowerCase().replace(/[^a-z0-9]+/g, "-"), from position i on; dash: the
\* previous character already produced a "-"
RECURSIVE dashed(_, _, _)
dashed(input, i, dash) ==
  IF i > Len(input) THEN ""
  ELSE LET c == toLowerCase(SubSeq(input, i, i))
       IN IF InString(c, Lower) \/ InString(c, Digits)
          THEN c \o dashed(input, i + 1, FALSE)
          ELSE (IF dash THEN "" ELSE "-") \o dashed(input, i + 1, TRUE)

RECURSIVE stripDashes(_)
stripDashes(x) ==
  IF Len(x) > 0 /\ SubSeq(x, 1, 1) = "-" THEN stripDashes(SubSeq(x, 2, Len(x)))
  ELSE IF Len(x) > 0 /\ SubSeq(x, Len(x), Len(x)) = "-" THEN stripDashes(SubSeq(x, 1, Len(x) - 1))
  ELSE x

SlugLength == 80

slugify(input) ==
  LET x == stripDashes(dashed(input, 1, FALSE))
  IN IF Len(x) > SlugLength THEN SubSeq(x, 1, SlugLength) ELSE x

DateLength == 10

\* createdAt.slice(0, 10)
dateOf(at) == IF Len(at) > DateLength THEN SubSeq(at, 1, DateLength) ELSE at

defaultFilename(createdAt, id, title, now) ==
  (IF isValidDate(Str(createdAt)) THEN dateOf(createdAt) ELSE dateOf(toISOString(now)))
  \o "__" \o id \o "__" \o slugify(title) \o ".md"

\* the segments of a "/"-separated name
RECURSIVE segments(_, _)
segments(name, acc) ==
  IF Len(name) = 0 THEN <<acc>>
  ELSE IF SubSeq(name, 1, 1) = "/"
       THEN <<acc>> \o segments(SubSeq(name, 2, Len(name)), "")
       ELSE segments(SubSeq(name, 2, Len(name)), acc \o SubSeq(name, 1, 1))

\* path normalisation: ".." removes the segment before it, "" and "." are dropped
RECURSIVE normalize(_, _)
normalize(stack, rest) ==
  IF Len(rest) = 0 THEN stack
  ELSE IF Head(rest) = ".."
       THEN normalize(IF Len(stack) > 0 THEN SubSeq(stack, 1, Len(stack) - 1) ELSE stack, Tail(rest))
  ELSE IF Head(rest) \in {"", "."} THEN normalize(stack, Tail(rest))
  ELSE normalize(Append(stack, Head(rest)), Tail(rest))

RECURSIVE joined(_)
joined(segs) ==
  IF Len(segs) = 0 THEN ""
  ELSE IF Len(segs) = 1 THEN segs[1]
  ELSE segs[1] \o "/" \o joined(Tail(segs))

\* path.join(ticketsRoot, targetFolder, filename) as <<directory, relative name>>
joinTicketPath(targetFolder, filename) ==
  LET at == normalize(<<"tickets", targetFolder>>, segments(filename, ""))
  IN IF Len(at) > 2 /\ at[1] = "tickets" /\ at[2] \in Folders
     THEN <<at[2], joined(SubSeq(at, 3, Len(at)))>>
     ELSE <<Elsewhere, joined(at)>>

\* the frontmatter createTicket builds
createFrontmatter(params, now) ==
  LET createdAt == IF params.created_at.t \in {"undefined", "null"}
                   THEN toISOString(now) ELSE String(params.created_at)
  IN [k \in Keys |->
       CASE k = "id" -> Str(trim(params.id))
         [] k = "title" -> Str(trim(params.title))
         [] k = "status" -> IF params.status.t \in {"undefined", "null"}
                            THEN Str("pending") ELSE params.status
         [] k = "created_at" -> Str(createdAt)
         [] k = "updated_at" -> Str(createdAt)
         [] k = "area" -> Str(trim(params.area))
         [] k = "epic" -> Str(IF trim(params.epic) = "" THEN "none" ELSE trim(params.epic))
         [] k = "key_files" -> List(normalizeStringList(params.key_files))
         [] k = "intent" -> Str(trim(params.intent))
         [] k = "requirements" -> List(normalizeStringList(params.requirements))
         [] k = "human_testing_steps" -> List(normalizeStringList(params.human_testing_steps))
         [] k = "constraints" -> List(normalizeStringList(params.constraints))
         [] k = "depends_on" -> List(normalizeStringList(params.depends_on))
         [] k = "claimed_by" -> Null
         [] k = "claimed_at" -> Null
         [] k = "work_log" -> List(<<>>)
         [] k = "review_notes" -> Null
         [] OTHER -> Undefined]

\* params.body when it is a non-blank string (<<>>: absent), else the template
createBody(params) ==
  IF Len(params.body) > 0 /\ bodyNonBlank(params.body[1])
  THEN params.body[1]
  ELSE defaultBody(trim(params.title))

createFilename(params, now) ==
  IF Len(trim(params.filename)) > 0
  THEN trim(params.filename)
  ELSE defaultFilename(createFrontmatter(params, now).created_at.s, trim(params.id),
                       trim(params.title), now)

\* keys that name a property every object literal inherits: STATUS_TO_FOLDER[status]
\* is then a function, and path.join throws a TypeError
InheritedKeys == {"constructor", "toString"}

createPath(params, now) ==
  joinTicketPath(STATUS_TO_FOLDER(String(createFrontmatter(params, now).status)),
                 createFilename(params, now))

createTicket(fs, params, now) ==
  LET frontmatter == createFrontmatter(params, now)
      body == createBody(params)
      status == String(frontmatter.status)
      filePath == createPath(params, now)
      issues == validateTicket(frontmatter, body, filePath)
      fail(error) == Outcome(fs, Failure("create", error))
  IN IF trim(params.id) = "" THEN fail("Missing id")
     ELSE IF findTicketById(fs, trim(params.id)) # {}
     THEN fail("Ticket id already exists: " \o trim(params.id))
     ELSE IF frontmatter.title.s = "" \/ frontmatter.area.s = "" \/ frontmatter.intent.s = ""
     THEN fail("Missing required fields")
     ELSE IF \/ Len(frontmatter.requirements.l) = 0
             \/ Len(frontmatter.human_testing_steps.l) = 0
             \/ Len(frontmatter.constraints.l) = 0
     THEN fail("requirements, human_testing_steps, constraints must be non-empty")
     ELSE IF Len(frontmatter.key_files.l) = 0 THEN fail("key_files must be non-empty")
     ELSE IF status \in InheritedKeys
     THEN fail("The \"path\" argument must be of type string")
     ELSE IF STATUS_TO_FOLDER(status) = "" THEN fail(formatInvalidStatus(frontmatter.status))
     ELSE IF existsSync(fs, filePath)
     THEN fail("Ticket file already exists")
     ELSE IF rejects(issues)
     THEN Outcome(fs, Reply("create", FALSE, "Validation failed", issues, NoPath))
     ELSE Outcome(writeTicket(fs, filePath, frontmatter, body),
                  Reply("create", TRUE, "", <<>>, filePath))

(***************************************************************************)
(* tickets.reconcile                                                       *)
(***************************************************************************)
\* the setDefault calls, in order
DefaultedFields ==
  <<"epic", "key_files", "requirements", "human_testing_steps", "constraints",
    "depends_on", "claimed_by", "claimed_at", "work_log", "review_notes">>

\* defaults that leave epic as it is
defaultOfRequired(field) ==
  CASE field = "epic" -> Undefined
    [] field \in {"claimed_by", "claimed_at", "review_notes"} -> Null
    [] OTHER -> List(<<>>)

defaultOf(field) ==
  CASE field = "epic" -> Str("none")
    [] field \in {"claimed_by", "claimed_at", "review_notes"} -> Null
    [] OTHER -> List(<<>>)

Report(path, changed, fixes, before, after) ==
  [path |-> path, changed |-> changed, fixes_applied |-> fixes,
   before_issues |-> before, after_issues |-> after, unresolved_issues |-> after]

\* the frontmatter after the fixes of reconcileTicketAtPath, before updated_at is stamped
fixedFrontmatter(frontmatter, filePath, now) ==
  LET defaulted == [k \in Keys |->
                     IF frontmatter[k].t = "undefined" /\ k \in Range(DefaultedFields)
                     THEN defaultOf(k) ELSE frontmatter[k]]
      dated == [defaulted EXCEPT
                 !.created_at = IF ~isValidDate(@) THEN Str(toISOString(now)) ELSE @,
                 !.updated_at = IF ~isValidDate(@) THEN Str(toISOString(now)) ELSE @,
                 !.claimed_at = IF @.t \notin {"undefined", "null"} /\ ~isValidDate(@)
                                THEN Null ELSE @]
  IN IF ~IsStatus(dated.status) /\ inferStatusFromPath(filePath) # ""
     THEN [dated EXCEPT !.status = Str(inferStatusFromPath(filePath))]
     ELSE dated

\* the notes pushed to fixesApplied, in order
fixesApplied(frontmatter, filePath, destinationPath) ==
  LET missing == SelectSeq(DefaultedFields, LAMBDA f : frontmatter[f].t = "undefined")
  IN [i \in 1..Len(missing) |-> "Set missing " \o missing[i]]
     \o If(~isValidDate(frontmatter.created_at),
           "Set invalid or missing created_at to current timestamp")
     \o If(~isValidDate(frontmatter.updated_at),
           "Set invalid or missing updated_at to current timestamp")
     \o If(frontmatter.claimed_at.t \notin {"undefined", "null"}
             /\ ~isValidDate(frontmatter.claimed_at),
           "Set invalid claimed_at to null")
     \o If(~IsStatus(frontmatter.status) /\ inferStatusFromPath(filePath) # "",
           "Set invalid or missing status to " \o inferStatusFromPath(filePath))
     \o If(destinationPath # filePath, "Moved ticket to " \o destinationPath[1] \o " folder")

\* a reconcile that writes every ticket where it found it
reconcileInPlace(fixed, filePath) == filePath

\* where reconcileTicketAtPath writes the ticket
reconcileDestination(fixed, filePath) ==
  IF IsStatus(fixed.status)
        /\ resolvePathForStatus(filePath, fixed.status.s) \notin {NoPath, filePath}
  THEN resolvePathForStatus(filePath, fixed.status.s)
  ELSE filePath

\* reconcileTicketAtPath: the store it leaves and its report
reconcileTicketAtPath(fs, filePath, applyFixes, now) ==
  IF ~existsSync(fs, filePath)
  THEN [fs |-> fs,
        report |-> Report(filePath, FALSE, <<>>, <<"Failed to read ticket">>,
                          <<"Failed to read ticket">>)]
  ELSE
    LET record == readTicket(fs, filePath)
        beforeIssues == validateTicket(record.frontmatter, record.body, filePath)
                          \o If(record.parseError # "", record.parseError)
        fixed == fixedFrontmatter(record.frontmatter, filePath, now)
        destinationPath == reconcileDestination(fixed, filePath)
        fixes == fixesApplied(record.frontmatter, filePath, destinationPath)
        changed == Len(fixes) > 0
        frontmatter == IF changed THEN [fixed EXCEPT !.updated_at = Str(toISOString(now))]
                       ELSE fixed
        afterIssues == validateTicket(frontmatter, record.body, destinationPath)
    IN IF ~applyFixes \/ record.parseError # ""
       THEN [fs |-> fs, report |-> Report(filePath, FALSE, <<>>, beforeIssues, beforeIssues)]
       ELSE [fs |-> IF changed
                    THEN relocate(fs, filePath, destinationPath, frontmatter, record.body)
                    ELSE fs,
             report |-> Report(destinationPath, changed, fixes, beforeIssues, afterIssues)]

\* the stores a reconcileTicketAtPath that changes the ticket passes through
reconcileStores(fs, filePath, now) ==
  LET record == readTicket(fs, filePath)
      fixed == fixedFrontmatter(record.frontmatter, filePath, now)
  IN relocationSteps(fs, filePath, reconcileDestination(fixed, filePath),
                     [fixed EXCEPT !.updated_at = Str(toISOString(now))], record.body)

\* targets.map(reconcileTicketAtPath): the store after the targets, in order, and the reports
RECURSIVE reconcileAll(_, _, _, _, _)
reconcileAll(fs, targets, applyFixes, now, reports) ==
  IF Len(targets) = 0 THEN [fs |-> fs, reports |-> reports]
  ELSE LET one == reconcileTicketAtPath(fs, Head(targets), applyFixes, now)
       IN reconcileAll(one.fs, Tail(targets), applyFixes, now, Append(reports, one.report))

\* the summary reconcileTickets returns
reconcileReply(applyFixes, reports) ==
  [Reply("reconcile", TRUE, "", <<>>, NoPath) EXCEPT
     !.report = [apply_fixes |-> applyFixes,
                 changed |-> Cardinality({i \in 1..Len(reports) : reports[i].changed}),
                 unresolved |-> Cardinality({i \in 1..Len(reports) :
                                              Len(reports[i].unresolved_issues) > 0}),
                 reports |-> reports]]

\* reconcileTickets once its targets are known: they are reconciled in order
reconcileTargetsNow(fs, targets, applyFixes, now) ==
  LET done == reconcileAll(fs, targets, applyFixes, now, <<>>)
  IN Outcome(done.fs, reconcileReply(applyFixes, done.reports))

\* the orders in which a set of paths can be enumerated
Orders(paths) ==
  {q \in [1..Cardinality(paths) -> paths] : \A i, j \in DOMAIN q : i # j => q[i] # q[j]}

\* a reading of apply_fixes that takes every value for true
applyFixesAlways(apply_fixes) == TRUE

\* params?.apply_fixes === true
applyFixesOf(apply_fixes) == apply_fixes = Bool("true")

\* explicitPath ? [explicitPath] : await listTicketFiles(): the target lists
\* reconcileTickets can work on
reconcileTargetsOf(fs, params) ==
  IF resolveTicketPath(fs, params) = {}
  THEN Orders(listTicketFiles(fs))
  ELSE {<<filePath>> : filePath \in resolveTicketPath(fs, params)}

\* reconcileTickets when no other request is handled while it is suspended
reconcileTickets(fs, params, apply_fixes, now) ==
  {reconcileTargetsNow(fs, targets, applyFixesOf(apply_fixes), now) :
     targets \in reconcileTargetsOf(fs, params)}

(***************************************************************************)
(* The read-only tools: list, get, validate, stats, next_id.               *)
(***************************************************************************)
\* String(value ?? "")
stringOrEmpty(value) == IF value.t \in {"undefined", "null"} THEN "" ELSE String(value)

readTicketSummary(fs, filePath) ==
  LET record == readTicket(fs, filePath)
      frontmatter == normalizeFrontmatter(record.frontmatter)
  IN [id |-> stringOrEmpty(frontmatter.id),
      title |-> stringOrEmpty(frontmatter.title),
      status |-> IF frontmatter.status.t \in {"undefined", "null"} THEN Str("")
                 ELSE frontmatter.status,
      area |-> stringOrEmpty(frontmatter.area),
      epic |-> stringOrEmpty(frontmatter.epic),
      path |-> filePath,
      updated_at |-> frontmatter.updated_at,
      intent |-> frontmatter.intent]

\* normalizeFilter: null (given FALSE) for a falsy value, else the strings of the
\* list, or the one string the value converts to
normalizeFilter(value) ==
  IF ~Truthy(value) THEN [given |-> FALSE, values |-> {}]
  ELSE IF IsArray(value) THEN [given |-> TRUE, values |-> Range(value.l)]
  ELSE [given |-> TRUE, values |-> {String(value)}]

\* text.toLowerCase()
RECURSIVE lowerCase(_)
lowerCase(text) ==
  IF Len(text) = 0 THEN ""
  ELSE toLowerCase(SubSeq(text, 1, 1)) \o lowerCase(SubSeq(text, 2, Len(text)))

\* normalizeFilters; text: "" for null (both are falsy)
normalizeFilters(filters) ==
  [status |-> normalizeFilter(filters.status),
   area |-> normalizeFilter(filters.area),
   epic |-> normalizeFilter(IF filters.epic.t \in {"undefined", "null"} THEN filters.feature
                            ELSE filters.epic),
   text |-> IF filters.text.t = "string" THEN lowerCase(filters.text.s) ELSE ""]

\* haystack.includes(text)
Contains(haystack, text) ==
  \E i \in 1..(Len(haystack) - Len(text) + 1) : SubSeq(haystack, i, i + Len(text) - 1) = text

\* a test that lets a ticket through when one of the filters takes it
ticketMatchesOneFilter(summary, filters) ==
  \/ filters.status.given /\ summary.status.t = "string"
       /\ summary.status.s \in filters.status.values
  \/ filters.area.given /\ summary.area \in filters.area.values
  \/ filters.epic.given /\ summary.epic \in filters.epic.values
  \/ filters.text # ""
       /\ Contains(lowerCase(summary.id \o " " \o summary.title \o " "
                              \o stringOrEmpty(summary.intent)), filters.text)

ticketMatchesFilters(summary, filters) ==
  /\ filters.status.given =>
       summary.status.t = "string" /\ summary.status.s \in filters.status.values
  /\ filters.area.given => summary.area \in filters.area.values
  /\ filters.epic.given => summary.epic \in filters.epic.values
  /\ filters.text # "" =>
       Contains(lowerCase(summary.id \o " " \o summary.title \o " "
                          \o stringOrEmpty(summary.intent)), filters.text)

\* the collation order of the characters the model compares: punctuation, then
\* digits, then letters (a and A at the same place)
Collation == "-:." \o Digits \o Lower

collationRank(c) ==
  IF InString(toLowerCase(c), Collation)
  THEN CHOOSE i \in 1..Len(Collation) : SubSeq(Collation, i, i) = toLowerCase(c)
  ELSE 0

\* a.localeCompare(b) < 0 on the letters as folded
RECURSIVE collatesBefore(_, _)
collatesBefore(a, b) ==
  IF Len(b) = 0 THEN FALSE
  ELSE IF Len(a) = 0 THEN TRUE
  ELSE IF SubSeq(a, 1, 1) = SubSeq(b, 1, 1)
          \/ collationRank(SubSeq(a, 1, 1)) = collationRank(SubSeq(b, 1, 1))
       THEN collatesBefore(SubSeq(a, 2, Len(a)), SubSeq(b, 2, Len(b)))
       ELSE collationRank(SubSeq(a, 1, 1)) < collationRank(SubSeq(b, 1, 1))

\* a.localeCompare(b): -1, 0 or 1; folded-equal texts that differ have the one
\* with the lower-case letter at the first difference first
localeCompare(a, b) ==
  IF collatesBefore(a, b) THEN -1
  ELSE IF collatesBefore(b, a) THEN 1
  ELSE IF a = b THEN 0
  ELSE LET i == CHOOSE j \in 1..Len(a) :
                  SubSeq(a, j, j) # SubSeq(b, j, j) /\ SubSeq(a, 1, j - 1) = SubSeq(b, 1, j - 1)
       IN IF InString(SubSeq(a, i, i), Lower) THEN -1 ELSE 1

\* summary.updated_at ?? ""
updatedAtOf(summary) ==
  IF summary.updated_at.t \in {"undefined", "null"} THEN "" ELSE summary.updated_at.s

\* tickets.sort(...): the orders a stable sort by updated_at, latest first, can
\* give, the files being enumerated in any order
sortedByUpdatedAt(summaries) ==
  LET earlier == {pair \in summaries \X summaries :
                    localeCompare(updatedAtOf(pair[1]), updatedAtOf(pair[2])) < 0}
  IN {q \in Orders(summaries) : \A i, j \in DOMAIN q : i < j => <<q[i], q[j]>> \notin earlier}

\* listTickets: the replies it can give; the comparator throws on an updated_at
\* that is neither a string nor absent, which the server answers with an error
listTickets(fs, filters) ==
  LET normalized == normalizeFilters(filters)
      summaries == {readTicketSummary(fs, filePath) : filePath \in listTicketFiles(fs)}
      tickets == {summary \in summaries : ticketMatchesFilters(summary, normalized)}
  IN IF Cardinality(tickets) > 1
        /\ \E summary \in tickets :
             summary.updated_at.t \notin {"undefined", "null", "string"}
     THEN {Outcome(fs, Failure("list", "Internal error"))}
     ELSE {Outcome(fs, [Reply("list", TRUE, "", <<>>, NoPath) EXCEPT !.data = sorted])
             : sorted \in sortedByUpdatedAt(tickets)}

(***************************************************************************)
(* INDEX.md.  The file is kept as what it tells: whether it was written,   *)
(* the total it states and, heading by heading, the rows of its tables.    *)
(***************************************************************************)
ACTIVE == <<"in_progress", "blocked", "pending", "awaiting_human_test">>

TERMINAL == <<"done", "archived">>

\* no INDEX.md
NoIndex == [written |-> FALSE, total |-> 0, groups |-> <<>>]

\* t.updated_at ? t.updated_at.slice(0, 10) : "-"
updatedOf(summary) ==
  IF ~Truthy(summary.updated_at) THEN "-"
  ELSE IF summary.updated_at.t = "list" THEN "<list>"
  ELSE SubSeq(summary.updated_at.s, 1, IF Len(summary.updated_at.s) < 10
                                        THEN Len(summary.updated_at.s) ELSE 10)

\* one line of a table
indexRow(summary) ==
  [id |-> summary.id, title |-> summary.title, area |-> summary.area,
   epic |-> IF summary.epic = "" THEN "-" ELSE summary.epic, updated |-> updatedOf(summary)]

\* the comparator of list.sort, or slice, throws on some updated_at
indexThrows(summaries) ==
  \/ \E a, b \in summaries :
       /\ a # b
       /\ a.status = b.status
       /\ a.updated_at.t \notin {"undefined", "null", "string"}
  \/ \E a \in summaries :
       /\ \E i \in DOMAIN (ACTIVE \o TERMINAL) : a.status = Str((ACTIVE \o TERMINAL)[i])
       /\ Truthy(a.updated_at)
       /\ a.updated_at.t \notin {"string", "list"}

\* the tables INDEX.md can hold for the summaries, heading by heading in the
\* order ACTIVE, TERMINAL; a status with no ticket has no heading
RECURSIVE indexGroups(_, _)
indexGroups(summaries, statuses) ==
  IF statuses = <<>> THEN {<<>>}
  ELSE LET tickets == {summary \in summaries : summary.status = Str(Head(statuses))}
           rest == indexGroups(summaries, Tail(statuses))
       IN IF tickets = {} THEN rest
          ELSE {<<[status |-> Head(statuses),
                   rows |-> [i \in DOMAIN sorted |-> indexRow(sorted[i])]]>> \o groups :
                  sorted \in sortedByUpdatedAt(tickets), groups \in rest}

\* regenerateIndex once the files are listed: the summaries of the listed files
\* that still exist are read and INDEX.md is written; {} when it throws
regenerateIndex(fs, listed) ==
  LET summaries == {readTicketSummary(fs, filePath) : filePath \in listed \cap DOMAIN fs}
  IN IF indexThrows(summaries) THEN {}
     ELSE {[written |-> TRUE, total |-> Cardinality(summaries), groups |-> groups] :
             groups \in indexGroups(summaries, ACTIVE \o TERMINAL)}

getTicket(fs, params) ==
  IF resolveTicketPath(fs, params) = {}
  THEN {notFound(fs, "get")}
  ELSE {LET record == readTicket(fs, filePath)
        IN Outcome(fs, [Reply("get", TRUE, "",
                              validateTicket(record.frontmatter, record.body, record.path),
                              record.path) EXCEPT
                          !.data = [frontmatter |-> record.frontmatter, body |-> record.body,
                                    parse_error |-> record.parseError]])
          : filePath \in resolveTicketPath(fs, params)}

\* validateTickets as the tool is called: one ticket if the target resolves, else
\* the whole store
validateTicketsReply(fs, params) ==
  IF resolveTicketPath(fs, params) = {}
  THEN {Outcome(fs, [Reply("validate", TRUE, "", <<>>, NoPath) EXCEPT
                       !.data = validateTickets(fs)])}
  ELSE {LET record == readTicket(fs, filePath)
        IN Outcome(fs, Reply("validate", TRUE, "",
                             validateTicket(record.frontmatter, record.body, filePath)
                               \o If(record.parseError # "", record.parseError),
                             filePath))
          : filePath \in resolveTicketPath(fs, params)}

IsDigit(c) == InString(c, Digits)

\* A ticket number is a JavaScript number, a double: it is kept as two limbs,
\* hi * Limb + lo, so that it has its 53 bits of precision
Limb == 10 ^ 8

Wide(hi, lo) == [hi |-> hi, lo |-> lo]

Small(n) == Wide(0, n)

\* null: the id has no digit
NoNumber == Wide(-1, 0)

\* Number.MAX_SAFE_INTEGER + 1 = 2^53 = 9007199254740992: up to it every
\* integer is a double, above it (and below 2^54) only the even ones
TwoTo53 == Wide(90071992, 54740992)

atMost(a, b) == a.hi < b.hi \/ (a.hi = b.hi /\ a.lo <= b.lo)

succ(n) == IF n.lo + 1 = Limb THEN Wide(n.hi + 1, 0) ELSE Wide(n.hi, n.lo + 1)

pred(n) == IF n.lo = 0 THEN Wide(n.hi - 1, Limb - 1) ELSE Wide(n.hi, n.lo - 1)

\* the double nearest to an integer below 2^54: an odd integer above 2^53 lies
\* halfway between two doubles and goes to the one whose mantissa is even
toDouble(n) ==
  IF atMost(n, TwoTo53) \/ n.lo % 2 = 0 THEN n
  ELSE IF (n.lo + 1) % 4 = 0 THEN succ(n) ELSE pred(n)

\* highestTicketNumber + 1, in doubles
plusOne(n) == toDouble(succ(n))

\* the integer a run of digits names
RECURSIVE digitsValue(_)
digitsValue(digits) ==
  IF Len(digits) = 0 THEN Small(0)
  ELSE LET rest == digitsValue(SubSeq(digits, 1, Len(digits) - 1))
           low == rest.lo * 10
                  + (CHOOSE d \in 0..9 :
                       SubSeq(Digits, d + 1, d + 1) = SubSeq(digits, Len(digits), Len(digits)))
       IN Wide(rest.hi * 10 + (low \div Limb), low % Limb)

\* Number.parseInt(digits, 10) of a run of digits
parseInt(digits) == toDouble(digitsValue(digits))

\* String(n) of a ticket number
numberToString(n) ==
  IF n.hi = 0 THEN ToString(n.lo)
  ELSE ToString(n.hi) \o SubSeq(ToString(Limb + n.lo), 2, Len(ToString(Limb + n.lo)))

\* a reading of the id that takes its first run of digits
extractFirstNumber(ticketId) ==
  LET at == {i \in 1..Len(ticketId) : IsDigit(SubSeq(ticketId, i, i))}
  IN IF at = {} THEN NoNumber
     ELSE LET first == CHOOSE i \in at : \A j \in at : j >= i
              last == CHOOSE i \in at : i >= first /\ (\A j \in first..i : j \in at)
                                          /\ (i + 1) \notin at
          IN parseInt(SubSeq(ticketId, first, last))

\* extractTicketNumber: /(\d+)(?!.*\d)/ matches the last maximal run of digits
\* (-1: null, the id has no digit)
extractTicketNumber(ticketId) ==
  LET at == {i \in 1..Len(ticketId) : IsDigit(SubSeq(ticketId, i, i))}
  IN IF at = {} THEN NoNumber
     ELSE LET last == CHOOSE i \in at : \A j \in at : j <= i
              first == CHOOSE i \in at : i <= last /\ (\A j \in i..last : j \in at)
                                           /\ (i - 1) \notin at
          IN parseInt(SubSeq(ticketId, first, last))

\* Math.max(...ticketNumbers), 0 when there is none
highestTicketNumber(fs) ==
  LET ticketNumbers == {extractTicketNumber(readTicketSummary(fs, filePath).id) :
                          filePath \in listTicketFiles(fs)} \ {NoNumber}
  IN IF ticketNumbers = {} THEN Small(0)
     ELSE CHOOSE n \in ticketNumbers : \A k \in ticketNumbers : atMost(k, n)

\* increment over the summaries: how many tickets have each key
tally(keyAt) ==
  [key \in {keyAt[filePath] : filePath \in DOMAIN keyAt} |->
     Cardinality({filePath \in DOMAIN keyAt : keyAt[filePath] = key})]

\* the counts of ticketStats by status, area and epic
statsCounts(fs) ==
  LET summaryAt == [filePath \in listTicketFiles(fs) |-> readTicketSummary(fs, filePath)]
  IN [status |-> tally([q \in DOMAIN summaryAt |->
                          IF Truthy(summaryAt[q].status) THEN String(summaryAt[q].status)
                          ELSE "unknown"]),
      area |-> tally([q \in DOMAIN summaryAt |->
                        IF summaryAt[q].area # "" THEN summaryAt[q].area ELSE "unknown"]),
      epic |-> tally([q \in DOMAIN summaryAt |->
                        IF summaryAt[q].epic # "" THEN summaryAt[q].epic ELSE "unassigned"])]

ticketStats(fs) ==
  Outcome(fs, [Reply("stats", TRUE, "", <<>>, NoPath) EXCEPT
                 !.data = [counts |-> statsCounts(fs),
                           highest_ticket_number |-> highestTicketNumber(fs),
                           next_ticket_number |-> plusOne(highestTicketNumber(fs))]])

\* String(n).padStart(padding, "0")
RECURSIVE padStart(_, _)
padStart(text, padding) ==
  IF Len(text) >= padding THEN text ELSE padStart("0" \o text, padding)

\* the number a numeric argument carries (integers; a leading "-" negates)
numberOf(value) ==
  IF SubSeq(value.s, 1, 1) = "-" THEN 0 - digitsValue(SubSeq(value.s, 2, Len(value.s))).lo
  ELSE digitsValue(value.s).lo

\* the padding of nextTicketId: Math.max(0, Math.floor(padding)), 3 by default
paddingOf(value) ==
  IF value.t = "number" THEN (IF numberOf(value) > 0 THEN numberOf(value) ELSE 0) ELSE 3

nextTicketId(fs, params) ==
  LET nextTicketNumber == plusOne(highestTicketNumber(fs))
      prefix == IF params.prefix.t = "string" THEN params.prefix.s ELSE "T"
      separator == IF params.separator.t = "string" THEN params.separator.s ELSE "-"
      padding == paddingOf(params.padding)
      numericPart == IF padding > 0 THEN padStart(numberToString(nextTicketNumber), padding)
                     ELSE numberToString(nextTicketNumber)
      suggestedId == IF prefix # "" THEN prefix \o separator \o numericPart ELSE numericPart
  IN Outcome(fs, [Reply("next_id", TRUE, "", <<>>, NoPath) EXCEPT
                    !.data = [highest_ticket_number |-> highestTicketNumber(fs),
                              next_ticket_number |-> nextTicketNumber,
                              suggested_id |-> suggestedId]])

(***************************************************************************)
(* Requests: the arguments the handlers are called with.                   *)
(***************************************************************************)
Ids == {"T-1", "T-2"}

MissingPath == <<"done", "missing.md">>

\* by path (an existing file or a path that names no file) or by id
Targets(fs) ==
  {Target(filePath, "") : filePath \in DOMAIN fs \cup {MissingPath}}
  \cup {Target(NoPath, id) : id \in Ids}

\* requests that carry both a path and an id
PathAndId(fs) ==
  {Target(filePath, id) : filePath \in DOMAIN fs \cup {MissingPath}, id \in Ids \cup {"T-9"}}

\* by id, by path, or by an absolute path the caller spells with a "./" segment
RelocationTargets(fs) ==
  Targets(fs) \cup {Target(<<filePath[1], "./" \o filePath[2]>>, "") : filePath \in DOMAIN fs}

\* the requests that name no ticket, or one that is not there
WholeStore == {Target(NoPath, ""), Target(MissingPath, ""), Target(NoPath, "T-9")}

\* apply_fixes as sent: absent, true, false, or the string "true"
ApplyFixes == {Undefined, Bool("true"), Bool("false"), Str("true")}

\* the filters of one tickets.list request
Filters(status, area, epic, feature, text) ==
  [status |-> status, area |-> area, epic |-> epic, feature |-> feature, text |-> text]

\* the filters tickets.list is called with: the status absent, a list, an empty
\* list or a single string, with the text absent, in either case, spanning two
\* fields or empty; and the area and the epic (sent as epic or as feature) with
\* and without a status and a text
ListFilters ==
  {Filters(st, Undefined, Undefined, Undefined, tx) :
     st \in {Undefined, List(<<"pending">>), List(<<>>), Str("done")},
     tx \in {Undefined, Str("fixture"), Str("FIXTURE"), Str("1 fixture"), Str("")}}
  \cup
  {Filters(st, ar, ep[1], ep[2], Undefined) :
     st \in {Undefined, List(<<"pending", "done">>)},
     ar \in {Undefined, List(<<"tooling">>)},
     ep \in {<<Undefined, Undefined>>, <<List(<<"auth">>), Undefined>>,
             <<Undefined, List(<<"qa">>)>>}}

\* the arguments tickets.next_id is called with
NextIdParams ==
  {[prefix |-> pre, separator |-> sep, padding |-> pad] :
     pre \in {Undefined, Str("T"), Str("")},
     sep \in {Undefined, Str("_")},
     pad \in {Undefined, Num("0"), Num("2"), Num("5"), Num("-1"), Str("5")}}

ValidEntry == Entry("", "alice", "note", "progress")

\* an entry that names its time
DatedEntry == Entry("2026-01-15T00:00:00Z", "alice", "change", "done")

\* an entry with no kind
InvalidEntry == Entry("", "alice", "", "progress")

Request(args, entry) == [args |-> args, entry |-> entry]

NoPatch == [k \in {} |-> Null]

\* tickets.update: the patch objects (JSON: no value is undefined) and
\* params.work_log_entry (<<>>: absent)
UpdateRequests ==
  { Request([area |-> Str("tools"), epic |-> Str("qa")], <<ValidEntry>>),
    Request([status |-> Str("")], <<>>),
    Request([status |-> Str("done")], <<>>),
    Request([id |-> Str("T-2")], <<>>),
    Request([work_log |-> List(<<>>)], <<>>),
    Request(NoPatch, <<InvalidEntry>>) }

\* tickets.update: patches that name a field without a value, the field the
\* server stamps, the legacy alias of epic, and the log together with an entry
HeaderPatches ==
  { Request([title |-> Null], <<>>),
    Request([updated_at |-> Str("2020-01-01T00:00:00Z")], <<>>),
    Request([feature |-> Str("auth")], <<>>),
    Request([status |-> Str("blocked")], <<>>),
    Request([work_log |-> List(<<>>), intent |-> Str("why")], <<DatedEntry>>) }

\* tickets.move: to_status and params.work_log_entry
MoveRequests ==
  {Request(st, IF st = "done" THEN <<DatedEntry>> ELSE <<>>)
     : st \in Statuses \cup {"in-progress"}}
  \cup {Request("pending", <<InvalidEntry>>)}

\* tickets.claim: actor and summary
ClaimRequests == {Request("alice", ""), Request(" bob ", " on it "), Request("", "")}

\* tickets.append_worklog: params.entry, and how far the clock advances between
\* the handler's two readings of it
AppendRequests ==
  {Request(0, <<>>), Request(0, <<ValidEntry>>), Request(1, <<ValidEntry>>),
   Request(0, <<InvalidEntry>>)}

CreateParams ==
  [id |-> "T-3", title |-> "Fix login", area |-> "tooling", epic |-> "", intent |-> "why",
   requirements |-> <<"r">>, human_testing_steps |-> <<"h">>, constraints |-> <<"c">>,
   key_files |-> <<"server.ts">>, depends_on |-> <<>>, status |-> Undefined,
   created_at |-> Undefined, body |-> <<>>, filename |-> ""]

CreateRequests ==
  {[CreateParams EXCEPT !.id = " T-3 ", !.status = status] :
     status \in {Undefined} \cup {Str(st) : st \in Statuses}}
  \cup {[CreateParams EXCEPT !.id = id] : id \in {"T-1", ""}}
  \cup {[CreateParams EXCEPT !.status = Str(st)] : st \in {"", "bogus", "constructor"}}
  \cup {[CreateParams EXCEPT !.title = " "], [CreateParams EXCEPT !.area = ""],
        [CreateParams EXCEPT !.intent = ""], [CreateParams EXCEPT !.requirements = <<>>],
        [CreateParams EXCEPT !.human_testing_steps = <<"">>],
        [CreateParams EXCEPT !.constraints = <<>>], [CreateParams EXCEPT !.key_files = <<>>]}
  \cup {[CreateParams EXCEPT !.created_at = Str("not-a-date")],
        [CreateParams EXCEPT !.body = <<Body("\n", "# Notes", {})>>],
        [CreateParams EXCEPT !.created_at = Str("2026-01-31T00:00:00Z"),
                             !.body = <<Body("  ", "# Fix", Range(REQUIRED_BODY_HEADERS))>>]}
  \cup {[CreateParams EXCEPT !.filename = f] : f \in {"a.md", "../done/a.md", "../../a.md"}}

\* tickets.next_id as the README calls it, and with no argument
WorkflowIdParams ==
  {[prefix |-> Str("T"), separator |-> Str("-"), padding |-> Num("3")],
   [prefix |-> Undefined, separator |-> Undefined, padding |-> Undefined]}

\* tickets.create as the README calls it (the id is the suggested one)
WorkflowCreates ==
  {[CreateParams EXCEPT !.title = title, !.epic = "none", !.status = status] :
     title \in {"Example ticket", "Fix login"}, status \in {Undefined, Str("pending"), Str("done")}}

(***************************************************************************)
(* Seed stores: the ticket files the server is started on.                 *)
(***************************************************************************)
SeedDate == "2026-01-01T00:00:00Z"

SeedBody == Body("", "# Fixture Ticket", Range(REQUIRED_BODY_HEADERS))

\* a ticket that validates: every key present, status as given
validFrontmatter(id, status, claimedBy) ==
  [k \in Keys |->
    CASE k = "id" -> Str(id)
      [] k = "title" -> Str("Fixture Ticket")
      [] k = "status" -> Str(status)
      [] k \in {"created_at", "updated_at"} -> Str(SeedDate)
      [] k = "area" -> Str("tooling")
      [] k = "epic" -> Str("none")
      [] k = "intent" -> Str("baseline")
      [] k \in {"key_files", "requirements", "human_testing_steps", "constraints"} -> List(<<"x">>)
      [] k = "depends_on" -> List(<<>>)
      [] k = "claimed_by" -> IF claimedBy = "" THEN Null ELSE Str(claimedBy)
      [] k = "claimed_at" -> IF claimedBy = "" THEN Null ELSE Str(SeedDate)
      [] k = "work_log" ->
           List(<<Entry(SeedDate, "seed", "note", "Ticket created")>>
                \o IF claimedBy = "" THEN <<>>
                   ELSE <<Entry(SeedDate, claimedBy, "claim", "started")>>)
      [] k = "review_notes" -> Null
      [] OTHER -> Undefined]

\* the "Mismatch Ticket" of the integration test: status done, unparsable dates,
\* empty lists, the keys after constraints absent
mismatchFrontmatter(id) ==
  [k \in Keys |->
    CASE k = "id" -> Str(id)
      [] k = "title" -> Str("Mismatch Ticket")
      [] k = "status" -> Str("done")
      [] k = "created_at" -> Str("not-a-date")
      [] k = "updated_at" -> Str("still-not-a-date")
      [] k = "area" -> Str("tooling")
      [] k = "epic" -> Str("none")
      [] k = "intent" -> Str("reconcile fixture")
      [] k \in {"key_files", "requirements", "human_testing_steps", "constraints"} -> List(<<>>)
      [] OTHER -> Undefined]

SeedFile(frontmatter) == ticketContent(frontmatter, SeedBody)

MalformedFile == FileText(<<>>, TRUE, SeedBody)

Store1(path, file) == [q \in {path} |-> file]

Store2(path, file, other, otherFile) ==
  [q \in {path, other} |-> IF q = path THEN file ELSE otherFile]

\* ticket T-1 alone, valid, in the folder of its status
ValidSeeds ==
  {Store1(<<STATUS_TO_FOLDER(st), "a.md">>, SeedFile(validFrontmatter("T-1", st, "")))
     : st \in Statuses}

\* ticket T-1 valid and pending, with a second valid ticket T-2
PairSeeds ==
  {Store2(<<"pending", "a.md">>, SeedFile(validFrontmatter("T-1", "pending", "")),
          <<"in_progress", name>>, SeedFile(validFrontmatter("T-2", "in_progress", "alice")))
     : name \in Names}

\* stores holding a file that does not validate, or that reconcile has a fix for
BrokenSeeds ==
  { Store1(<<"pending", "a.md">>, SeedFile(mismatchFrontmatter("T-1"))),
    Store1(<<"done", "a.md">>, SeedFile(mismatchFrontmatter("T-1"))),
    Store1(<<"pending", "a.md">>, MalformedFile),
    Store1(<<"in_progress", "a.md">>,
           SeedFile([validFrontmatter("T-1", "", "") EXCEPT !.status = Undefined])),
    Store1(<<"done", "a.md">>, SeedFile(validFrontmatter("T-1", "pending", ""))),
    Store1(<<"pending", "a.md">>, SeedFile(validFrontmatter("T-1", "in-progress", ""))),
    Store1(<<Elsewhere, "a.md">>, SeedFile(validFrontmatter("T-1", "pending", ""))),
    Store1(<<"in_progress", "a.md">>,
           SeedFile([validFrontmatter("T-1", "in_progress", "alice") EXCEPT
                       !.claimed_at = Str("soon")])),
    Store1(<<"pending", "a.md">>,
           SeedFile([validFrontmatter("T-1", "pending", "") EXCEPT !.epic = Undefined])),
    Store1(<<"pending", "a.md">>,
           SeedFile([validFrontmatter("T-1", "pending", "") EXCEPT
                       !.title = Undefined, !.epic = Undefined])) }

\* a store holding a valid ticket written before epic replaced feature
LegacySeeds ==
  { Store1(<<"pending", "a.md">>,
           SeedFile([validFrontmatter("T-1", "pending", "") EXCEPT
                       !.epic = Undefined, !.feature = Str("auth")])) }

\* a store holding one valid pending ticket whose number is the largest safe
\* integer, 2^53 - 1, or the first number past it, 2^53
WideIdSeeds ==
  { Store1(<<"pending", "a.md">>, SeedFile(validFrontmatter(id, "pending", "")))
      : id \in {"T-9007199254740991", "T-9007199254740992"} }

\* the ids of the integration test's fixtures, and ids with several runs of
\* digits, with none, and with digits before letters
TicketIds ==
  {"T-BASE-001", "T-BASE-042", "T-BASE-100", "T-12-345", "NOTES", "v2-draft", "T-0099", "7"}

MaxTickets == 3

\* a store holding one valid pending ticket for each id
StoreOfIds(ids) ==
  [filePath \in {<<"pending", id \o ".md">> : id \in ids} |->
     SeedFile(validFrontmatter(SubSeq(filePath[2], 1, Len(filePath[2]) - 3), "pending", ""))]

\* the stores the id tools are called on: up to MaxTickets tickets; the fixtures
\* beside a ticket whose id YAML reads as a number, beside one whose header is
\* malformed, and beside a file outside the status folders
IdStores ==
  {StoreOfIds(ids) : ids \in {q \in SUBSET TicketIds : Cardinality(q) <= MaxTickets}}
  \cup {[filePath \in DOMAIN StoreOfIds({"T-BASE-042"}) \cup {extra[1]} |->
           IF filePath = extra[1] THEN extra[2] ELSE StoreOfIds({"T-BASE-042"})[filePath]] :
         extra \in {<<<<"done", "n.md">>,
                      SeedFile([validFrontmatter("", "done", "") EXCEPT !.id = Num("250")])>>,
                    <<<<"done", "m.md">>, MalformedFile>>,
                    <<<<Elsewhere, "e.md">>,
                      SeedFile(validFrontmatter("T-999", "pending", ""))>>}}

\* files for tickets.list: tickets that differ in status, area, epic, in where
\* "fixture" occurs and in updated_at (two of them equal), one with the legacy
\* feature key, and a file whose header is malformed
ListedFiles ==
  LET ticket(id, status, title, intent, area, updated) ==
        SeedFile([validFrontmatter(id, status, "") EXCEPT
                    !.title = Str(title), !.intent = intent, !.area = Str(area),
                    !.updated_at = Str(updated)])
  IN (<<"pending", "a.md">> :> SeedFile(validFrontmatter("T-1", "pending", "")))
     @@ (<<"pending", "b.md">> :>
           ticket("T-2", "pending", "Login page", Str("see FIXTURE data"), "ui",
                  "2026-01-03T00:00:00Z"))
     @@ (<<"done", "c.md">> :>
           SeedFile([validFrontmatter("T-3", "done", "") EXCEPT
                       !.updated_at = Str("2026-01-02T00:00:00Z"),
                       !.epic = Undefined, !.feature = Str("qa")]))
     @@ (<<"in_progress", "d.md">> :>
           SeedFile([validFrontmatter("FIXTURE-4", "in_progress", "alice") EXCEPT
                       !.title = Str("Deploy"), !.intent = Undefined, !.epic = Str("auth")]))
     @@ (<<"pending", "e.md">> :> MalformedFile)
     @@ (<<"pending", "f.md">> :>
           ticket("T-6", "pending", "Notes", Str("cleanup"), "tooling",
                  "2025-12-31T23:59:59Z"))

\* the stores tickets.list is called on: up to MaxTickets of these files
ListStores ==
  {[filePath \in paths |-> ListedFiles[filePath]] :
     paths \in {q \in SUBSET DOMAIN ListedFiles : Cardinality(q) <= MaxTickets}}

(***************************************************************************)
(* The state machine.                                                      *)
(***************************************************************************)
\* what is kept of the last reply
Brief(reply) ==
  [op |-> reply.op, ok |-> reply.ok, error |-> reply.error, path |-> reply.path,
   changed |-> reply.report.changed, unresolved |-> reply.report.unresolved,
   data |-> reply.data]

NoTargets == [waiting |-> FALSE, apply_fixes |-> FALSE, targets |-> <<>>]

\* no INDEX.md, no regeneration in flight, no error swallowed
Unindexed ==
  /\ indexFile = NoIndex
  /\ regenerations = <<>>
  /\ swallowed = 0

\* no tickets.get with a path and an id answered last, no relocation between its write and its unlink,
\* no client holding a suggested id
Idle ==
  /\ getParams = Target(NoPath, "")
  /\ relocating = <<>>
  /\ clients = <<>>

Init ==
  /\ files \in ValidSeeds \cup PairSeeds \cup BrokenSeeds
  /\ strictMode \in BOOLEAN
  /\ result = Brief(Reply("", TRUE, "", <<>>, NoPath))
  /\ reconcileTargets = NoTargets
  /\ handled = 0
  /\ requests = MaxRequests
  /\ Unindexed
  /\ Idle

\* the server started in strict mode on a store where every ticket validates
InitStrict ==
  /\ files \in ValidSeeds \cup PairSeeds
  /\ strictMode = TRUE
  /\ result = Brief(Reply("", TRUE, "", <<>>, NoPath))
  /\ reconcileTargets = NoTargets
  /\ handled = 0
  /\ requests = MaxStrictRequests
  /\ Unindexed
  /\ Idle

\* the server started on a store of tickets with various ids
InitIds ==
  /\ files \in IdStores
  /\ strictMode = TRUE
  /\ result = Brief(Reply("", TRUE, "", <<>>, NoPath))
  /\ reconcileTargets = NoTargets
  /\ handled = 0
  /\ requests = MaxRequests
  /\ Unindexed
  /\ Idle

\* the server started on a store of tickets to list
InitList ==
  /\ files \in ListStores
  /\ strictMode = TRUE
  /\ result = Brief(Reply("", TRUE, "", <<>>, NoPath))
  /\ reconcileTargets = NoTargets
  /\ handled = 0
  /\ requests = MaxRequests
  /\ Unindexed
  /\ Idle

\* the strict server started on a valid ticket T-1, to be sent appends
InitAppends ==
  /\ files \in ValidSeeds
  /\ strictMode = TRUE
  /\ result = Brief(Reply("", TRUE, "", <<>>, NoPath))
  /\ reconcileTargets = NoTargets
  /\ handled = 0
  /\ requests = MaxAppends
  /\ Unindexed
  /\ Idle

\* the server, strict or not, started on any of the stores, to be sent claims
InitClaims ==
  /\ files \in ValidSeeds \cup PairSeeds \cup BrokenSeeds
  /\ strictMode \in BOOLEAN
  /\ result = Brief(Reply("", TRUE, "", <<>>, NoPath))
  /\ reconcileTargets = NoTargets
  /\ handled = 0
  /\ requests = MaxClaims
  /\ Unindexed
  /\ Idle

\* the server, strict or not, started on any of the stores, its clients about
\* to follow the workflow of the README
InitWorkflow ==
  /\ files \in ValidSeeds \cup PairSeeds \cup BrokenSeeds \cup WideIdSeeds
  /\ strictMode \in BOOLEAN
  /\ result = Brief(Reply("", TRUE, "", <<>>, NoPath))
  /\ reconcileTargets = NoTargets
  /\ handled = 0
  /\ requests = 2 * MaxClients
  /\ Unindexed
  /\ Idle

\* the server, strict or not, started on any of the stores, to be sent
\* relocating requests
InitRelocation ==
  /\ files \in ValidSeeds \cup PairSeeds \cup BrokenSeeds \cup LegacySeeds
  /\ strictMode \in BOOLEAN
  /\ result = Brief(Reply("", TRUE, "", <<>>, NoPath))
  /\ reconcileTargets = NoTargets
  /\ handled = 0
  /\ requests = MaxRelocations
  /\ Unindexed
  /\ Idle

\* the stores the indexed server is started on: T-1 valid and pending, alone or
\* with a second ticket whose updated_at is a number, or whose status is none
\* of the six
IndexSeeds ==
  {Store1(<<"pending", "a.md">>, SeedFile(validFrontmatter("T-1", "pending", "")))}
  \cup {Store2(<<"pending", "a.md">>, SeedFile(validFrontmatter("T-1", "pending", "")),
                <<"done", "b.md">>, SeedFile(other))
          : other \in {[validFrontmatter("T-2", "done", "") EXCEPT !.updated_at = Num("5")],
                       [validFrontmatter("T-2", "done", "") EXCEPT !.status = Str("bogus")]}}

InitIndex ==
  /\ files \in IndexSeeds
  /\ strictMode = TRUE
  /\ result = Brief(Reply("", TRUE, "", <<>>, NoPath))
  /\ reconcileTargets = NoTargets
  /\ handled = 0
  /\ requests = MaxIndexedRequests
  /\ Unindexed
  /\ Idle

Now == handled + 1

\* a regeneration that has not enumerated the files yet
Started == [listed |-> FALSE, files |-> {}]

\* handlers that start a regeneration whatever they reply
regeneratesAlways(reply) == TRUE

\* the handlers call regenerateIndex().catch(() => { }) before a successful
\* mutation returns (reconcile: if (applyFixes && changed > 0))
regenerates(reply) ==
  /\ reply.ok
  /\ \/ reply.op \in {"update", "move", "claim", "append_worklog", "create"}
     \/ reply.op = "reconcile" /\ reply.report.apply_fixes /\ reply.report.changed > 0

\* the regeneration runs up to its await listTicketFiles()
Trigger(reply) ==
  /\ regenerations' = IF regenerates(reply) THEN Append(regenerations, Started)
                      ELSE regenerations
  /\ UNCHANGED <<indexFile, swallowed>>

\* the handler returns: its store is the store, its reply the last reply
Answer(outcome) ==
  /\ files' = outcome.fs
  /\ result' = Brief(outcome.reply)
  /\ handled' = handled + 1
  /\ Trigger(outcome.reply)
  /\ UNCHANGED <<strictMode, reconcileTargets, requests>>

\* a handler that wrote in one step returns
Deliver(outcome) ==
  /\ Answer(outcome)
  /\ getParams' = Target(NoPath, "")
  /\ UNCHANGED <<relocating, clients>>

Update ==
  /\ handled < requests
  /\ \E params \in Targets(files), request \in UpdateRequests :
       \E outcome \in updateTicket(files, params, request.args, request.entry, Now) :
         Deliver(outcome)

\* tickets.update with the patches of HeaderPatches
UpdateHeader ==
  /\ handled < requests
  /\ \E params \in Targets(files), request \in HeaderPatches :
       \E outcome \in updateTicket(files, params, request.args, request.entry, Now) :
         Deliver(outcome)

Move ==
  /\ handled < requests
  /\ \E params \in Targets(files), request \in MoveRequests :
       \E outcome \in moveTicket(files, params, request.args, request.entry, Now) :
         Deliver(outcome)

Claim ==
  /\ handled < requests
  /\ \E params \in Targets(files), request \in ClaimRequests :
       \E outcome \in claimTicket(files, params, request.args, request.entry, Now) :
         Deliver(outcome)

\* the handler reads the clock twice; the second reading is the first or the next
AppendWorklog ==
  /\ handled < requests
  /\ \E params \in Targets(files), request \in AppendRequests :
       \E outcome \in appendTicketWorklog(files, params, request.entry, Now,
                                           Now + request.args) :
         Deliver(outcome)

Create ==
  /\ handled < requests
  /\ \E params \in CreateRequests : Deliver(createTicket(files, params, Now))

\* tickets.reconcile of one ticket
Reconcile ==
  /\ handled < requests
  /\ \E params \in Targets(files), apply_fixes \in ApplyFixes :
       /\ resolveTicketPath(files, params) # {}
       /\ \E outcome \in reconcileTickets(files, params, apply_fixes, Now) : Deliver(outcome)

\* tickets.reconcile of the whole store, up to "await listTicketFiles()": the
\* handler is suspended holding the files enumerated (one such request at a time)
ReconcileList ==
  /\ handled < requests
  /\ ~reconcileTargets.waiting
  /\ \E params \in WholeStore, apply_fixes \in ApplyFixes :
       /\ resolveTicketPath(files, params) = {}
       /\ \E targets \in reconcileTargetsOf(files, params) :
            reconcileTargets' = [waiting |-> TRUE, apply_fixes |-> applyFixesOf(apply_fixes),
                                 targets |-> targets]
  /\ handled' = handled + 1
  /\ UNCHANGED <<files, strictMode, result, requests, indexFile, regenerations, swallowed,
                 getParams, relocating, clients>>

\* tickets.reconcile of the whole store, resumed: requests handled meanwhile have
\* changed the store, not the files enumerated
ReconcileResume ==
  /\ reconcileTargets.waiting
  /\ LET outcome == reconcileTargetsNow(files, reconcileTargets.targets,
                                        reconcileTargets.apply_fixes, Now)
     IN /\ files' = outcome.fs
        /\ result' = Brief(outcome.reply)
        /\ Trigger(outcome.reply)
  /\ reconcileTargets' = NoTargets
  /\ UNCHANGED <<strictMode, handled, requests, getParams, relocating, clients>>

ListTickets ==
  /\ handled < requests
  /\ \E filters \in ListFilters : \E outcome \in listTickets(files, filters) : Deliver(outcome)

Get ==
  /\ handled < requests
  /\ \E params \in Targets(files) : \E outcome \in getTicket(files, params) : Deliver(outcome)

\* tickets.get with both a path and an id
GetByPathAndId ==
  /\ handled < requests
  /\ \E params \in PathAndId(files) :
       \E outcome \in getTicket(files, params) :
         /\ Answer(outcome)
         /\ getParams' = params
         /\ UNCHANGED <<relocating, clients>>

Validate ==
  /\ handled < requests
  /\ \E params \in Targets(files) \cup WholeStore :
       \E outcome \in validateTicketsReply(files, params) : Deliver(outcome)

Stats ==
  /\ handled < requests
  /\ Deliver(ticketStats(files))

NextId ==
  /\ handled < requests
  /\ \E params \in NextIdParams : Deliver(nextTicketId(files, params))

\* a relocation that has written its destination: the ticket it relocates, the
\* store once the source is removed, and the reply the handler will return
Relocation(fs, filePath, stores, reply) ==
  [ticket |-> String(readTicket(fs, filePath).frontmatter.id), unlinking |-> TRUE,
   fs |-> stores[Len(stores)], reply |-> reply]

\* the first step of a relocation by the handler: writeTicket(destination, ...)
Write(filePath, stores, reply) ==
  /\ files' = stores[1]
  /\ relocating' = <<Relocation(files, filePath, stores, reply)>>
  /\ UNCHANGED <<strictMode, result, reconcileTargets, handled, requests, indexFile,
                 regenerations, swallowed, getParams, clients>>

\* a relocation is between its write and its unlink
Unlinking == relocating # <<>> /\ relocating[1].unlinking

\* a successful tickets.move up to its writeTicket
MoveWrite ==
  /\ handled < requests
  /\ ~Unlinking
  /\ \E params \in RelocationTargets(files), request \in MoveRequests :
       \E filePath \in resolveTicketPath(files, params) :
         /\ moveTicketAt(files, filePath, request.args, request.entry, Now).reply.ok
         /\ Write(filePath,
                  moveTicketStores(files, filePath, request.args, request.entry, Now),
                  moveTicketAt(files, filePath, request.args, request.entry, Now).reply)

\* a successful tickets.claim up to its writeTicket
ClaimWrite ==
  /\ handled < requests
  /\ ~Unlinking
  /\ \E params \in RelocationTargets(files), request \in ClaimRequests :
       \E filePath \in resolveTicketPath(files, params) :
         /\ claimTicketAt(files, filePath, request.args, request.entry, Now).reply.ok
         /\ Write(filePath,
                  claimTicketStores(files, filePath, request.args, request.entry, Now),
                  claimTicketAt(files, filePath, request.args, request.entry, Now).reply)

\* a tickets.reconcile of one ticket, with apply_fixes, that changes it, up to
\* its writeTicket
ReconcileWrite ==
  /\ handled < requests
  /\ ~Unlinking
  /\ \E params \in RelocationTargets(files) :
       \E filePath \in resolveTicketPath(files, params) :
         /\ reconcileTicketAtPath(files, filePath, TRUE, Now).report.changed
         /\ Write(filePath, reconcileStores(files, filePath, Now),
                  reconcileReply(TRUE, <<reconcileTicketAtPath(files, filePath, TRUE, Now).report>>))

\* the rest of the relocation: fs.unlinkSync(filePath) if the destination is not
\* the source, and the handler returns
UnlinkAndReturn ==
  /\ Unlinking
  /\ Answer(Outcome(relocating[1].fs, relocating[1].reply))
  /\ relocating' = <<[relocating[1] EXCEPT !.unlinking = FALSE]>>
  /\ UNCHANGED <<getParams, clients>>

\* step 1 of the README workflow: a client calls tickets.next_id, before any
\* client has called create, and keeps the suggested id
AllocateId ==
  /\ handled < MaxClients
  /\ \E params \in WorkflowIdParams :
       /\ Answer(nextTicketId(files, params))
       /\ clients' = Append(clients, [id |-> nextTicketId(files, params).reply.data.suggested_id,
                                      created |-> ""])
  /\ UNCHANGED <<getParams, relocating>>

\* step 2 of the README workflow: a client calls tickets.create with the id it
\* was suggested
CreateSuggested ==
  /\ handled >= MaxClients
  /\ handled < requests
  /\ \E i \in DOMAIN clients, params \in WorkflowCreates :
       /\ clients[i].created = ""
       /\ LET outcome == createTicket(files, [params EXCEPT !.id = clients[i].id], Now)
          IN /\ Answer(outcome)
             /\ clients' = [clients EXCEPT ![i].created = IF outcome.reply.ok THEN "ok"
                                                          ELSE "error"]
  /\ UNCHANGED <<getParams, relocating>>

\* a regeneration resumes from "await listTicketFiles()" with the files there
\* are at that moment
Enumerate ==
  /\ \E i \in DOMAIN regenerations :
       /\ ~regenerations[i].listed
       /\ regenerations' = [regenerations EXCEPT ![i] = [listed |-> TRUE,
                                                          files |-> listTicketFiles(files)]]
  /\ UNCHANGED <<files, strictMode, result, reconcileTargets, handled, requests,
                 indexFile, swallowed, getParams, relocating, clients>>

\* a regeneration reads the files it has listed and writes INDEX.md, or throws,
\* which .catch(() => { }) swallows; regenerations finish in any order
WriteIndex ==
  /\ \E i \in DOMAIN regenerations :
       /\ regenerations[i].listed
       /\ regenerations' = [k \in 1..(Len(regenerations) - 1) |->
                             IF k < i THEN regenerations[k] ELSE regenerations[k + 1]]
       /\ IF regenerateIndex(files, regenerations[i].files) = {}
          THEN swallowed' = swallowed + 1 /\ UNCHANGED indexFile
          ELSE /\ indexFile' \in regenerateIndex(files, regenerations[i].files)
               /\ UNCHANGED swallowed
  /\ UNCHANGED <<files, strictMode, result, reconcileTargets, handled, requests,
                 getParams, relocating, clients>>

\* the tools that write
NextWriting ==
  \/ Update
  \/ Move
  \/ Claim
  \/ AppendWorklog
  \/ Create
  \/ Reconcile
  \/ ReconcileList
  \/ ReconcileResume

Next ==
  \/ Update
  \/ Move
  \/ Claim
  \/ AppendWorklog
  \/ Create
  \/ Reconcile
  \/ ReconcileList
  \/ ReconcileResume
  \/ UpdateHeader
  \/ ListTickets
  \/ Get
  \/ Validate
  \/ Stats
  \/ NextId

\* the tools that report ticket numbers
NextNumbering ==
  \/ Stats
  \/ NextId

\* the tools that look tickets up
NextReading ==
  \/ ListTickets
  \/ Get

\* tickets moved, claimed and reconciled while the index regenerations they
\* trigger run
NextIndexing ==
  \/ Move
  \/ Claim
  \/ Reconcile
  \/ Enumerate
  \/ WriteIndex

Spec == Init /\ [][Next]_vars

\* the server sent tickets.append_worklog requests only; the handler has no
\* await, so each request is handled in one step, and the event loop handles
\* every request received
SpecAppends == InitAppends /\ [][AppendWorklog]_vars /\ WF_vars(AppendWorklog)

\* the server sent tickets.claim requests only: the handler has no await, so
\* each request is handled in one step
SpecClaims == InitClaims /\ [][Claim]_vars

\* the clients of one server following the README workflow, all calling next_id
\* before any calls create
NextWorkflow ==
  \/ AllocateId
  \/ CreateSuggested

SpecWorkflow == InitWorkflow /\ [][NextWorkflow]_vars

\* relocations in two steps: the process may stop between the write and the unlink
NextRelocating ==
  \/ MoveWrite
  \/ ClaimWrite
  \/ ReconcileWrite
  \/ UnlinkAndReturn

SpecRelocation == InitRelocation /\ [][NextRelocating]_vars

\* the server sent tickets.get requests that carry a path and an id
SpecLookup == Init /\ [][GetByPathAndId]_vars

\* the server with its index regenerations in flight
SpecIndex == InitIndex /\ [][NextIndexing]_vars

\* the server asked to list and get tickets
SpecList == InitList /\ [][NextReading]_vars

\* the server asked for ticket numbers on stores of various ids
SpecIds == InitIds /\ [][NextNumbering]_vars

\* the strict server called with the tools that write (the others leave the
\* store to these as it was)
SpecStrict == InitStrict /\ [][NextWriting]_vars

(***************************************************************************)
(* Properties.                                                             *)
(***************************************************************************)
\* the server can be sent a request
Serving == handled < requests

\* the request is refused: an error reply, the store as it was, and the issue
\* list in the reply when the error is the validator's
Refused(outcome, issues) ==
  /\ outcome.fs = files
  /\ ~outcome.reply.ok
  /\ outcome.reply.error # ""
  /\ outcome.reply.error = "Validation failed" => outcome.reply.issues = issues

\* C1: in strict mode, whenever the validator reports an issue on the candidate
\* ticket of create, update, move, claim or append_worklog, the operation returns
\* an error carrying the issue list and leaves the store untouched.
StrictModeRefusesInvalidCandidates ==
  Serving /\ strictMode =>
    /\ \A params \in CreateRequests :
         LET issues == validateTicket(createFrontmatter(params, Now), createBody(params),
                                      createPath(params, Now))
         IN Len(issues) > 0 => Refused(createTicket(files, params, Now), issues)
    /\ \A params \in Targets(files) : \A filePath \in resolveTicketPath(files, params) :
         LET record == readTicket(files, filePath)
         IN /\ \A request \in UpdateRequests :
                 LET candidate == updateFrontmatter(record, request.args, request.entry, Now)
                     issues == validateTicket(candidate, record.body, filePath)
                 IN Len(issues) > 0 =>
                      Refused(updateTicketAt(files, filePath, request.args, request.entry, Now),
                              issues)
            /\ \A request \in MoveRequests :
                 LET candidate == moveFrontmatter(record, request.args, request.entry, Now)
                     issues == validateTicket(candidate, record.body,
                                              resolvePathForStatus(filePath, request.args))
                 IN Len(issues) > 0 =>
                      Refused(moveTicketAt(files, filePath, request.args, request.entry, Now),
                              issues)
            /\ \A request \in ClaimRequests :
                 LET candidate == claimFrontmatter(record, trim(request.args), request.entry, Now)
                     issues == validateTicket(candidate, record.body,
                                              resolvePathForStatus(filePath, "in_progress"))
                 IN Len(issues) > 0 =>
                      Refused(claimTicketAt(files, filePath, request.args, request.entry, Now),
                              issues)
            /\ \A request \in AppendRequests :
                 Len(request.entry) > 0 =>
                   LET candidate == appendFrontmatter(record, request.entry[1], Now,
                                                      Now + request.args)
                       issues == validateTicket(candidate, record.body, filePath)
                   IN Len(issues) > 0 =>
                        Refused(appendTicketWorklogAt(files, filePath, request.entry, Now,
                                                      Now + request.args), issues)

\* a strict server has refused a move for the validator's issues
StrictModeRefusedMove ==
  /\ strictMode
  /\ result.op = "move"
  /\ ~result.ok
  /\ result.error = "Validation failed"

\* C2: started on a store where every ticket validates, a strict server keeps the
\* whole-store validate result empty through every sequence of its operations,
\* reconcile with apply_fixes included.
StrictServerKeepsStoreValid == validateTickets(files) = {}

\* a strict server has handled all its requests, the last a move that wrote
StrictServerMoved ==
  /\ strictMode
  /\ handled = requests
  /\ result.op = "move"
  /\ result.ok
  /\ result.path[1] = "done"
  /\ validateTickets(files) = {}

\* the header of the ticket file at a path
frontmatterAt(fs, filePath) == readTicket(fs, filePath).frontmatter

\* the work log of the ticket file at a path (none: empty)
workLogAt(fs, filePath) ==
  IF IsArray(frontmatterAt(fs, filePath).work_log)
  THEN frontmatterAt(fs, filePath).work_log.l
  ELSE <<>>

IsPrefix(a, b) == Len(a) <= Len(b) /\ SubSeq(b, 1, Len(a)) = a

\* C3: a strict server started on a store where every ticket has one of the six
\* statuses and lies in the folder mapped from it keeps every ticket so.
StrictServerKeepsFolderStatusRule ==
  \A filePath \in listTicketFiles(files) :
    /\ IsStatus(frontmatterAt(files, filePath).status)
    /\ filePath[1] = STATUS_TO_FOLDER(frontmatterAt(files, filePath).status.s)

ClaimRefusedUnlessPending ==
  Serving =>
    \A params \in Targets(files), request \in ClaimRequests :
      \A filePath \in resolveTicketPath(files, params) :
        LET outcome == claimTicketAt(files, filePath, request.args, request.entry, Now)
        IN frontmatterAt(files, filePath).status # Str("pending") =>
             /\ ~outcome.reply.ok
             /\ outcome.reply.error # ""
             /\ outcome.fs = files

\* a claim of a ticket that has no status has been refused
ClaimOfStatuslessTicketRefused ==
  /\ result.op = "claim"
  /\ ~result.ok
  /\ result.error = "Ticket must be pending to claim (current status: unknown)"
  /\ \E filePath \in DOMAIN files : frontmatterAt(files, filePath).status = Undefined

\* C6: a successful claim by an actor leaves the ticket in_progress, claimed_by the
\* actor (trimmed), claimed_at and updated_at the time of the claim, the work log
\* the previous one with one claim entry of the actor appended, the file in the
\* in_progress folder and the file it was read from gone.
ClaimTakesTicket ==
  Serving =>
    \A params \in Targets(files), request \in ClaimRequests :
      \A filePath \in resolveTicketPath(files, params) :
        LET outcome == claimTicketAt(files, filePath, request.args, request.entry, Now)
            destination == outcome.reply.path
            after == frontmatterAt(outcome.fs, destination)
            before == workLogAt(files, filePath)
            log == workLogAt(outcome.fs, destination)
        IN outcome.reply.ok =>
             /\ frontmatterAt(files, filePath).status = Str("pending")
             /\ after.status = Str("in_progress")
             /\ after.claimed_by = Str(trim(request.args))
             /\ after.claimed_at = Str(toISOString(Now))
             /\ after.updated_at = Str(toISOString(Now))
             /\ Len(log) = Len(before) + 1
             /\ SubSeq(log, 1, Len(before)) = before
             /\ log[Len(log)].kind = "claim"
             /\ log[Len(log)].actor = trim(request.args)
             /\ destination[1] = "in_progress"
             /\ existsSync(outcome.fs, destination)
             /\ ~existsSync(outcome.fs, filePath)

\* bob has claimed the pending ticket, whose work log held an entry
ClaimedByBob ==
  /\ result.op = "claim"
  /\ result.ok
  /\ result.path = <<"in_progress", "a.md">>
  /\ frontmatterAt(files, result.path).claimed_by = Str("bob")
  /\ Len(workLogAt(files, result.path)) = 2
  /\ ~existsSync(files, <<"pending", "a.md">>)

\* what validate reports on the ticket file at a path
issuesAt(fs, filePath) ==
  validateTicket(frontmatterAt(fs, filePath), readTicket(fs, filePath).body, filePath)
  \o If(readTicket(fs, filePath).parseError # "", readTicket(fs, filePath).parseError)

\* create's optional inputs are valid: created_at absent or a date, body absent,
\* blank or holding the required sections, filename absent or a plain name
ValidCreateInputs(params) ==
  /\ params.created_at.t \in {"undefined", "null"} \/ isValidDate(params.created_at)
  /\ \/ Len(params.body) = 0
     \/ ~bodyNonBlank(params.body[1])
     \/ \A header \in Range(REQUIRED_BODY_HEADERS) : includes(params.body[1], header)
  /\ \A i \in 1..Len(params.filename) : SubSeq(params.filename, i, i) # "/"

\* C7: every ticket create accepts with valid inputs (in strict mode: every ticket
\* create accepts) validates with no issues, whichever legal status is supplied
\* or defaulted.
CreatedTicketValidates ==
  Serving =>
    \A params \in CreateRequests :
      LET outcome == createTicket(files, params, Now)
          created == outcome.reply.path
      IN outcome.reply.ok /\ (strictMode \/ ValidCreateInputs(params)) =>
           /\ created \in DOMAIN outcome.fs
           /\ issuesAt(outcome.fs, created) = <<>>
           /\ frontmatterAt(outcome.fs, created).status
                = (IF params.status.t = "undefined" THEN Str("pending") ELSE params.status)
           /\ IsStatus(frontmatterAt(outcome.fs, created).status)

\* a lenient server has created a ticket with status awaiting_human_test that validates
CreatedAwaitingHumanTest ==
  /\ ~strictMode
  /\ result.op = "create"
  /\ result.ok
  /\ result.path[1] = "awaiting_human_test"
  /\ frontmatterAt(files, result.path).id = Str("T-3")
  /\ issuesAt(files, result.path) = <<>>

\* one of create's preconditions fails
CreatePreconditionFails(fs, params, now) ==
  \/ trim(params.id) = ""
  \/ \E filePath \in listTicketFiles(fs) : frontmatterAt(fs, filePath).id = Str(trim(params.id))
  \/ trim(params.title) = "" \/ trim(params.area) = "" \/ trim(params.intent) = ""
  \/ \E list \in {params.requirements, params.human_testing_steps, params.constraints,
                  params.key_files} : normalizeStringList(list) = <<>>
  \/ params.status.t # "undefined" /\ ~IsStatus(params.status)
  \/ createPath(params, now) \in DOMAIN fs

\* C8: create returns an error and writes no file when the id is empty or taken,
\* title, area or intent is empty, one of requirements, human_testing_steps,
\* constraints, key_files is empty, the status is not legal, or the target file
\* exists (and is left as it was).
CreateRefusedOnFailedPrecondition ==
  Serving =>
    \A params \in CreateRequests :
      LET outcome == createTicket(files, params, Now)
      IN CreatePreconditionFails(files, params, Now) =>
           /\ ~outcome.reply.ok
           /\ outcome.reply.error # ""
           /\ outcome.fs = files

\* a create onto an existing file has been refused, the file still the seed's
CreateOntoExistingFileRefused ==
  /\ result.op = "create"
  /\ ~result.ok
  /\ result.error = "Ticket file already exists"
  /\ <<"pending", "a.md">> \in DOMAIN files
  /\ frontmatterAt(files, <<"pending", "a.md">>).id = Str("T-1")

\* C9: ticket ids are unique: started on a store whose tickets have pairwise
\* distinct ids, no two ticket files ever carry the same id.
TicketIdsUnique ==
  \A filePath, other \in listTicketFiles(files) :
    filePath # other => frontmatterAt(files, filePath).id # frontmatterAt(files, other).id

\* C10: the work log is append-only: for every operation applied to a ticket, the
\* work log before it is a prefix of the work log after it.
WorkLogAppendOnly ==
  Serving =>
    \A params \in Targets(files) : \A filePath \in resolveTicketPath(files, params) :
      LET kept(outcome) ==
            outcome.reply.ok =>
              IsPrefix(workLogAt(files, filePath), workLogAt(outcome.fs, outcome.reply.path))
      IN /\ \A request \in UpdateRequests :
              kept(updateTicketAt(files, filePath, request.args, request.entry, Now))
         /\ \A request \in MoveRequests :
              kept(moveTicketAt(files, filePath, request.args, request.entry, Now))
         /\ \A request \in ClaimRequests :
              kept(claimTicketAt(files, filePath, request.args, request.entry, Now))
         /\ \A request \in AppendRequests :
              kept(appendTicketWorklogAt(files, filePath, request.entry, Now,
                                         Now + request.args))
         /\ LET reconciled == reconcileTicketAtPath(files, filePath, TRUE, Now)
            IN reconciled.report.changed =>
                 IsPrefix(workLogAt(files, filePath),
                          workLogAt(reconciled.fs, reconciled.report.path))

\* the reconcile requests: one ticket, or the whole store
ReconcileRequests(fs) == Targets(fs) \cup WholeStore

\* the requests that reach the tickets a reconcile pass reported on: each by its
\* path, or the whole store again
Again(params, reply) ==
  {Target(reply.report.reports[i].path, "") : i \in DOMAIN reply.report.reports}
    \cup (IF params \in WholeStore THEN {params} ELSE {})

\* C11: reconcile is idempotent: after an apply-mode reconcile that leaves no
\* ticket unresolved, a second apply-mode reconcile of the same tickets, nothing
\* else having changed, reports changed = 0 and unresolved = 0 and leaves every
\* file as it is.
ReconcileIdempotent ==
  Serving =>
    \A params \in ReconcileRequests(files) :
      \A first \in reconcileTickets(files, params, Bool("true"), Now) :
        first.reply.report.unresolved = 0 =>
          \A again \in Again(params, first.reply) :
            \A second \in reconcileTickets(first.fs, again, Bool("true"), Now + 1) :
              /\ second.reply.report.changed = 0
              /\ second.reply.report.unresolved = 0
              /\ second.fs = first.fs

\* an apply-mode reconcile has fixed a ticket, and reconciling the store again
\* finds nothing to do
ReconciledOnce ==
  /\ result.op = "reconcile"
  /\ result.changed = 1
  /\ result.unresolved = 0
  /\ \A second \in reconcileTickets(files, Target(NoPath, ""), Bool("true"), Now) :
       second.reply.report.changed = 0 /\ second.fs = files

ReadOnlyToolsKeepStore ==
  Serving =>
    /\ \A filters \in ListFilters :
         \A outcome \in listTickets(files, filters) : outcome.fs = files
    /\ \A params \in Targets(files) :
         \A outcome \in getTicket(files, params) : outcome.fs = files
    /\ \A params \in Targets(files) \cup WholeStore :
         \A outcome \in validateTicketsReply(files, params) : outcome.fs = files
    /\ ticketStats(files).fs = files
    /\ \A params \in NextIdParams : nextTicketId(files, params).fs = files
    /\ \A params \in ReconcileRequests(files), apply_fixes \in ApplyFixes \ {Bool("true")} :
         \A outcome \in reconcileTickets(files, params, apply_fixes, Now) :
           LET reports == outcome.reply.report.reports
           IN /\ outcome.fs = files
              /\ outcome.reply.report.changed = 0
              /\ \A i \in DOMAIN reports :
                   /\ ~reports[i].changed
                   /\ reports[i].fixes_applied = <<>>
                   /\ reports[i].path \in DOMAIN files =>
                        reports[i].before_issues = issuesAt(files, reports[i].path)

\* a reconcile without apply_fixes has reported the mismatch ticket, which is
\* still in the pending folder with its unparsable dates
PreviewedMismatchTicket ==
  /\ result.op = "reconcile"
  /\ result.changed = 0
  /\ result.unresolved = 1
  /\ DOMAIN files = {<<"pending", "a.md">>}
  /\ frontmatterAt(files, <<"pending", "a.md">>) = mismatchFrontmatter("T-1")

\* the handler answers with an error and the store is as it was
Rejected(outcome) ==
  /\ outcome.fs = files
  /\ ~outcome.reply.ok
  /\ outcome.reply.error # ""

\* C14: a ticket whose header fails to parse is never written by an operation on
\* it: update, move, claim and append_worklog on it answer with an error and
\* leave the store as it was, and an apply-mode reconcile of it, alone or as one
\* of the tickets of the store, reports it not changed and unresolved and leaves
\* the store as it was.
ParseErrorBlocksMutation ==
  Serving =>
    \A filePath \in DOMAIN files :
      readTicket(files, filePath).parseError # "" =>
        /\ \A request \in UpdateRequests :
             Rejected(updateTicketAt(files, filePath, request.args, request.entry, Now))
        /\ \A request \in MoveRequests :
             Rejected(moveTicketAt(files, filePath, request.args, request.entry, Now))
        /\ \A request \in ClaimRequests :
             Rejected(claimTicketAt(files, filePath, request.args, request.entry, Now))
        /\ \A request \in AppendRequests :
             Rejected(appendTicketWorklogAt(files, filePath, request.entry, Now,
                                            Now + request.args))
        /\ LET one == reconcileTicketAtPath(files, filePath, TRUE, Now)
           IN /\ one.fs = files
              /\ ~one.report.changed
              /\ Len(one.report.unresolved_issues) > 0
        /\ \A outcome \in reconcileTickets(files, Target(filePath, ""), Bool("true"), Now) :
             /\ outcome.fs = files
             /\ outcome.reply.report.changed = 0
             /\ outcome.reply.report.unresolved = 1

\* a move of the ticket with the malformed header has been refused, the file as
\* it was
MoveOfMalformedTicketRefused ==
  /\ result.op = "move"
  /\ ~result.ok
  /\ result.error = "Ticket frontmatter parse error"
  /\ files = Store1(<<"pending", "a.md">>, MalformedFile)

\* the handler answers "Ticket not found" and the store is as it was
NotFound(outcome) ==
  /\ outcome.fs = files
  /\ ~outcome.reply.ok
  /\ outcome.reply.error = "Ticket not found"

\* C15: when the id or path of a request resolves to no file, get, update, move,
\* claim and append_worklog each answer with an error result and leave the store
\* as it was.
NotFoundHasNoEffect ==
  Serving =>
    \A params \in Targets(files) :
      resolveTicketPath(files, params) = {} =>
        /\ \A outcome \in getTicket(files, params) : NotFound(outcome)
        /\ \A request \in UpdateRequests :
             \A outcome \in updateTicket(files, params, request.args, request.entry, Now) :
               NotFound(outcome)
        /\ \A request \in MoveRequests :
             \A outcome \in moveTicket(files, params, request.args, request.entry, Now) :
               NotFound(outcome)
        /\ \A request \in ClaimRequests :
             \A outcome \in claimTicket(files, params, request.args, request.entry, Now) :
               NotFound(outcome)
        /\ \A request \in AppendRequests :
             \A outcome \in appendTicketWorklog(files, params, request.entry, Now,
                                                 Now + request.args) :
               NotFound(outcome)

\* a get of a ticket that is not in the store has been answered "Ticket not found"
GetOfMissingTicket ==
  /\ result.op = "get"
  /\ ~result.ok
  /\ result.error = "Ticket not found"
  /\ files \in ValidSeeds

\* C16: a reconcile that is given an id or path resolving to no file answers
\* "Ticket not found" and, even with apply_fixes true, leaves every file of the
\* store as it was.
ReconcileOfMissingTicketNotFound ==
  Serving =>
    \A params \in {Target(MissingPath, ""), Target(NoPath, "T-9")} :
      resolveTicketPath(files, params) = {} =>
        \A outcome \in reconcileTickets(files, params, Bool("true"), Now) :
          NotFound(outcome)

\* C17: reconcile is gated by strict mode: on a strict server, when the ticket as
\* an apply-mode reconcile would leave it still has validation issues, nothing is
\* written for that ticket and the store is as it was.
StrictModeGatesReconcile ==
  Serving /\ strictMode =>
    \A filePath \in listTicketFiles(files) :
      LET one == reconcileTicketAtPath(files, filePath, TRUE, Now)
      IN Len(one.report.after_issues) > 0 => one.fs = files

\* the required fields that have a value in every valid ticket
ValuedFields == Range(REQUIRED_FIELDS) \ {"claimed_by", "claimed_at", "review_notes"}

\* C18: a strict-mode update whose patch removes a required field, leaving it
\* absent or without a value in the resulting header, is rejected and the file is
\* as it was.
StrictUpdateKeepsRequiredFields ==
  Serving /\ strictMode =>
    \A params \in Targets(files), request \in UpdateRequests \cup HeaderPatches :
      \A filePath \in resolveTicketPath(files, params) :
        LET record == readTicket(files, filePath)
            candidate == updateFrontmatter(record, request.args, request.entry, Now)
        IN (\E field \in ValuedFields \cap DOMAIN request.args :
              /\ record.frontmatter[field].t \notin {"undefined", "null"}
              /\ candidate[field].t \in {"undefined", "null"})
           => Rejected(updateTicketAt(files, filePath, request.args, request.entry, Now))

\* the update requests: every patch of the model
PatchRequests == UpdateRequests \cup HeaderPatches

\* the value the merge gives a key: the patch's if it names the key, else the header's
mergedValue(frontmatter, patch, k) == IF k \in DOMAIN patch THEN patch[k] ELSE frontmatter[k]

\* the legacy alias is folded: the merged header has a feature and no epic
Folded(frontmatter, patch) ==
  /\ Truthy(mergedValue(frontmatter, patch, "feature"))
  /\ ~Truthy(mergedValue(frontmatter, patch, "epic"))

\* C19 (as stated): after a successful update every key named in the patch holds
\* the patch's value, every other key (other than updated_at and, when a
\* work_log_entry is given, work_log) holds its previous value, the body is
\* unchanged and updated_at is the time of the operation.
UpdateIsShallowMerge ==
  Serving =>
    \A params \in Targets(files), request \in PatchRequests :
      \A filePath \in resolveTicketPath(files, params) :
        LET before == readTicket(files, filePath)
            outcome == updateTicketAt(files, filePath, request.args, request.entry, Now)
            after == readTicket(outcome.fs, filePath)
            patch == request.args
        IN outcome.reply.ok =>
             /\ \A k \in DOMAIN patch : after.frontmatter[k] = patch[k]
             /\ \A k \in Keys \ DOMAIN patch :
                  k \notin {"updated_at"}
                            \cup (IF Len(request.entry) > 0 THEN {"work_log"} ELSE {})
                    => after.frontmatter[k] = before.frontmatter[k]
             /\ after.body = before.body
             /\ after.frontmatter.updated_at = Str(toISOString(Now))

\* C19 (amended): after a successful update updated_at is the time of the
\* operation, also when the patch names it; when a work_log_entry is given,
\* work_log is the merged list with the entry appended; when the merged header
\* has a feature and no epic, epic holds the feature; every other key holds the
\* patch's value if the patch names it and its previous value if not; the body
\* is unchanged.
UpdateMergesThenStamps ==
  Serving =>
    \A params \in Targets(files), request \in PatchRequests :
      \A filePath \in resolveTicketPath(files, params) :
        LET before == readTicket(files, filePath)
            outcome == updateTicketAt(files, filePath, request.args, request.entry, Now)
            after == readTicket(outcome.fs, filePath)
            patch == request.args
            merged == [k \in Keys |-> mergedValue(before.frontmatter, patch, k)]
            stamped == {"updated_at"}
                         \cup (IF Len(request.entry) > 0 THEN {"work_log"} ELSE {})
                         \cup (IF Folded(before.frontmatter, patch) THEN {"epic"} ELSE {})
        IN outcome.reply.ok =>
             /\ \A k \in Keys \ stamped : after.frontmatter[k] = merged[k]
             /\ after.frontmatter.updated_at = Str(toISOString(Now))
             /\ Len(request.entry) > 0 =>
                  after.frontmatter.work_log =
                    List((IF IsArray(merged.work_log) THEN merged.work_log.l ELSE <<>>)
                         \o request.entry)
             /\ Folded(before.frontmatter, patch) => after.frontmatter.epic = merged.feature
             /\ after.body = before.body

\* an update has given a ticket without epic the feature "auth", which the epic
\* now holds too
UpdateFoldedFeature ==
  /\ result.op = "update"
  /\ result.ok
  /\ frontmatterAt(files, result.path).feature = Str("auth")
  /\ frontmatterAt(files, result.path).epic = Str("auth")
  /\ frontmatterAt(files, result.path).updated_at = Str(toISOString(handled))

\* the text without the characters after its last digit
RECURSIVE upToLastDigit(_)
upToLastDigit(text) ==
  IF Len(text) = 0 \/ IsDigit(SubSeq(text, Len(text), Len(text))) THEN text
  ELSE upToLastDigit(SubSeq(text, 1, Len(text) - 1))

\* the digits a text ends with
RECURSIVE trailingDigits(_)
trailingDigits(text) ==
  IF Len(text) = 0 \/ ~IsDigit(SubSeq(text, Len(text), Len(text))) THEN ""
  ELSE trailingDigits(SubSeq(text, 1, Len(text) - 1)) \o SubSeq(text, Len(text), Len(text))

\* the ids of the tickets of the store, as text
idsOf(fs) == {stringOrEmpty(frontmatterAt(fs, filePath).id) : filePath \in listTicketFiles(fs)}

\* the maximum over the ids of the number formed by the last maximal run of
\* digits, 0 if no id has a digit
HighestNumber(fs) ==
  LET numbers == {parseInt(trailingDigits(upToLastDigit(id))) :
                    id \in {q \in idsOf(fs) : upToLastDigit(q) # ""}}
  IN IF numbers = {} THEN Small(0)
     ELSE CHOOSE n \in numbers : \A k \in numbers : atMost(k, n)

\* the next number zero-padded to the width of the request (3 by default)
PaddedNext(fs, params) ==
  padStart(numberToString(plusOne(HighestNumber(fs))), paddingOf(params.padding))

PrefixOf(params) == IF params.prefix.t = "string" THEN params.prefix.s ELSE "T"

SeparatorOf(params) == IF params.separator.t = "string" THEN params.separator.s ELSE "-"

\* stats and next_id report the highest and the next number
NumbersReported ==
  /\ ticketStats(files).reply.data.highest_ticket_number = HighestNumber(files)
  /\ ticketStats(files).reply.data.next_ticket_number = plusOne(HighestNumber(files))
  /\ \A params \in NextIdParams :
       /\ nextTicketId(files, params).reply.data.highest_ticket_number = HighestNumber(files)
       /\ nextTicketId(files, params).reply.data.next_ticket_number
            = plusOne(HighestNumber(files))
  /\ idsOf(files) = {"T-BASE-001", "T-BASE-042", "T-BASE-100"} =>
       nextTicketId(files, [prefix |-> Undefined, separator |-> Undefined,
                            padding |-> Undefined]).reply.data
         = [highest_ticket_number |-> Small(100), next_ticket_number |-> Small(101),
            suggested_id |-> "T-101"]

TakenByLists(summary, filters) ==
  LET epic == IF filters.epic.t \in {"undefined", "null"} THEN filters.feature
              ELSE filters.epic
      among(value, text) ==
        Truthy(value) => text \in (IF IsArray(value) THEN Range(value.l) ELSE {String(value)})
  IN /\ among(filters.status, String(summary.status))
     /\ among(filters.area, summary.area)
     /\ among(epic, summary.epic)

\* the text filter as sent ("": none)
TextOf(filters) == IF filters.text.t = "string" THEN lowerCase(filters.text.s) ELSE ""

\* the reply lists exactly the tickets taken, each once, latest updated_at first
ListsExactly(reply, taken) ==
  /\ reply.ok
  /\ {reply.data[i] : i \in DOMAIN reply.data} = taken
  /\ Len(reply.data) = Cardinality(taken)
  /\ \A i, j \in DOMAIN reply.data :
       i < j => ~collatesBefore(updatedAtOf(reply.data[i]), updatedAtOf(reply.data[j]))

\* C21 (as stated): list returns exactly the tickets that satisfy all supplied
\* filters, the text occurring case-insensitively as a substring of the id, of
\* the title or of the intent, ordered by updated_at descending.
ListMatchesTextInOneField ==
  Serving =>
    \A filters \in ListFilters :
      LET text == TextOf(filters)
          taken == {summary \in {readTicketSummary(files, q) : q \in listTicketFiles(files)} :
                      /\ TakenByLists(summary, filters)
                      /\ text # "" =>
                           \/ Contains(lowerCase(summary.id), text)
                           \/ Contains(lowerCase(summary.title), text)
                           \/ Contains(lowerCase(stringOrEmpty(summary.intent)), text)}
      IN \A outcome \in listTickets(files, filters) : ListsExactly(outcome.reply, taken)

\* C21 (amended): list returns exactly the tickets that satisfy all supplied
\* filters, the text occurring case-insensitively as a substring of the one text
\* made of id, title and intent joined by single spaces, ordered by updated_at
\* descending.
ListMatchesTextAcrossFields ==
  Serving =>
    \A filters \in ListFilters :
      LET text == TextOf(filters)
          taken == {summary \in {readTicketSummary(files, q) : q \in listTicketFiles(files)} :
                      /\ TakenByLists(summary, filters)
                      /\ text # "" =>
                           Contains(lowerCase(summary.id) \o " " \o lowerCase(summary.title)
                                      \o " " \o lowerCase(stringOrEmpty(summary.intent)), text)}
      IN \A outcome \in listTickets(files, filters) : ListsExactly(outcome.reply, taken)

\* of three pending tickets, list has returned the two that hold "fixture", the
\* later updated first
ListedPendingFixtures ==
  /\ result.op = "list"
  /\ DOMAIN files = {<<"pending", "a.md">>, <<"pending", "b.md">>, <<"pending", "f.md">>}
  /\ Len(result.data) = 2
  /\ result.data[1].id = "T-2"
  /\ result.data[2].id = "T-1"

(***************************************************************************)
(* Codec round trip (C22).                                                 *)
(***************************************************************************)
\* the bodies a ticket is written with
WrittenBodies ==
  {SeedBody, Body("\n", "# Notes", {}), Body("  ", "# Fix", Range(REQUIRED_BODY_HEADERS)),
   Body("", "", {}), Body(" \n", "", {})}

\* the headers a ticket is written with: those create builds from its requests
\* and those of the fixtures, as far as they hold every required key
CompleteHeaders ==
  {f \in {createFrontmatter(params, Now) : params \in CreateRequests}
          \cup {validFrontmatter("T-1", status, claimedBy) :
                  status \in Statuses, claimedBy \in {"", "alice"}} :
     \A i \in DOMAIN REQUIRED_FIELDS : f[REQUIRED_FIELDS[i]] # Undefined}

IndexEventuallyConsistent ==
  regenerations = <<>> /\ swallowed = 0 /\ indexFile.written =>
    /\ indexFile.total = Cardinality(listTicketFiles(files))
    /\ \A filePath \in listTicketFiles(files) :
         \E g \in DOMAIN indexFile.groups : \E i \in DOMAIN indexFile.groups[g].rows :
           /\ indexFile.groups[g].rows[i].id = readTicketSummary(files, filePath).id
           /\ Str(indexFile.groups[g].status) = readTicketSummary(files, filePath).status

(***************************************************************************)
(* Concurrent appends (C24).                                               *)
(***************************************************************************)
\* the appends acknowledged so far: each has started one index regeneration
Acknowledged == Len(regenerations)

\* an acknowledged append whose entry is not in the work log
WorkLogEntryLost ==
  \E filePath \in DOMAIN files : Len(workLogAt(files, filePath)) < 1 + Acknowledged

InProgressTicketsAreClaimed ==
  strictMode =>
    \A filePath \in listTicketFiles(files) :
      filePath[1] = "in_progress" =>
        frontmatterAt(files, filePath).claimed_by.t \notin {"null", "undefined"}

(***************************************************************************)
(* Update keeps the file where it is (C26).                                *)
(***************************************************************************)
\* the patch names a legal status whose folder is not the one the file lies in
StatusOfAnotherFolder(patch, filePath) ==
  /\ "status" \in DOMAIN patch
  /\ patch.status.t = "string"
  /\ patch.status.s \in Statuses
  /\ filePath[1] \in Folders
  /\ STATUS_TO_FOLDER(patch.status.s) # filePath[1]

\* C26: update never relocates a file: a successful update leaves the ticket at
\* the path it had and every other file as it was, and in strict mode an update
\* of a readable ticket whose patch sets status to a legal value mapped to
\* another folder is rejected with a folder/status mismatch issue, the store
\* unchanged.
UpdateNeverRelocates ==
  Serving =>
    \A params \in Targets(files), request \in PatchRequests :
      \A filePath \in resolveTicketPath(files, params) :
        LET outcome == updateTicketAt(files, filePath, request.args, request.entry, Now)
        IN /\ outcome.reply.ok =>
                /\ outcome.reply.path = filePath
                /\ DOMAIN outcome.fs = DOMAIN files
                /\ \A q \in DOMAIN files \ {filePath} : outcome.fs[q] = files[q]
           /\ strictMode /\ ~files[filePath].malformed
                /\ StatusOfAnotherFolder(request.args, filePath) =>
                /\ ~outcome.reply.ok
                /\ outcome.reply.error = "Validation failed"
                /\ \E i \in DOMAIN outcome.reply.issues :
                     outcome.reply.issues[i] = "Folder/status mismatch: " \o filePath[1]
                                                 \o " vs " \o request.args.status.s
                /\ outcome.fs = files

\* a strict server has refused an update of the valid pending ticket T-1, which
\* it refuses for the patch {status: done}, and the file is where it was
StrictUpdateToOtherFolderRefused ==
  /\ strictMode
  /\ result.op = "update"
  /\ ~result.ok
  /\ result.error = "Validation failed"
  /\ DOMAIN files = {<<"pending", "a.md">>}
  /\ validateTickets(files) = {}
  /\ frontmatterAt(files, <<"pending", "a.md">>).status = Str("pending")
  /\ ~updateTicketAt(files, <<"pending", "a.md">>, [status |-> Str("done")], <<>>, Now).reply.ok

(***************************************************************************)
(* Status repair (C27).                                                    *)
(***************************************************************************)
\* the status of a header is one of the six
HasLegalStatus(frontmatter) ==
  frontmatter.status.t = "string" /\ frontmatter.status.s \in Statuses

\* the status reconcile gives a ticket of a status folder that has none
StatusOfFolder(folder) ==
  CASE folder = "pending" -> "pending"
    [] folder = "in_progress" -> "in_progress"
    [] folder = "awaiting_human_test" -> "awaiting_human_test"
    [] folder = "done" -> "done"
    [] folder = "archive" -> "archived"

StoredEntry(outcome) ==
  workLogAt(outcome.fs, outcome.reply.path)[Len(workLogAt(outcome.fs, outcome.reply.path))]

\* C28 (as stated): every operation that appends a caller's work-log entry
\* (append_worklog, and update or move with work_log_entry) gives an entry whose
\* at is absent or blank the current time, so a strict server accepts an entry
\* that is valid except for its missing at and stores it with an at.
EveryOperationDefaultsEntryTime ==
  Serving /\ strictMode =>
    \A filePath \in listTicketFiles(files) :
      LET record == readTicket(files, filePath)
      IN record.parseError = "" /\ validateTicket(record.frontmatter, record.body, filePath) = <<>> =>
           \A outcome \in
               {appendTicketWorklogAt(files, filePath, <<ValidEntry>>, Now, Now),
                updateTicketAt(files, filePath, NoPatch, <<ValidEntry>>, Now),
                moveTicketAt(files, filePath, record.frontmatter.status.s, <<ValidEntry>>, Now)} :
             /\ outcome.reply.ok
             /\ StoredEntry(outcome) = [ValidEntry EXCEPT !.at = toISOString(Now)]

(***************************************************************************)
(* Required header keys (C29).                                             *)
(***************************************************************************)
\* the seventeen keys of a ticket header
HeaderKeys == Range(CanonicalOrder) \ {"feature"}

\* the issues validate reports on the ticket file at a path
issuesOfFile(filePath) ==
  validateTicket(readTicket(files, filePath).frontmatter, readTicket(files, filePath).body,
                 filePath)

\* C29 (as stated): validate reports a missing-field issue for each of the
\* seventeen header keys (epic among them) that is absent from the header, and
\* for no key that is present, be its value null or empty.
ValidateReportsEveryAbsentKey ==
  Serving =>
    \A filePath \in listTicketFiles(files) :
      ~files[filePath].malformed =>
        \A k \in HeaderKeys :
          (\E i \in DOMAIN issuesOfFile(filePath) :
             issuesOfFile(filePath)[i] = "Missing required field: " \o k)
            <=> readTicket(files, filePath).frontmatter[k] = Undefined

\* C29 (amended): validate reports a missing-field issue for each of the
\* sixteen required header keys (the seventeen but epic, which is optional)
\* that is absent from the header, for no key that is present, be its value
\* null or empty, and never for epic.
ValidateReportsAbsentRequiredKey ==
  Serving =>
    \A filePath \in listTicketFiles(files) :
      ~files[filePath].malformed =>
        \A k \in HeaderKeys :
          (\E i \in DOMAIN issuesOfFile(filePath) :
             issuesOfFile(filePath)[i] = "Missing required field: " \o k)
            <=> k # "epic" /\ readTicket(files, filePath).frontmatter[k] = Undefined

\* validate of the whole store has reported the ticket that has neither title
\* nor epic: its title is missing, and nothing else
ValidatedTicketWithoutEpic ==
  /\ result.op = "validate"
  /\ result.path = NoPath
  /\ DOMAIN files = {<<"pending", "a.md">>}
  /\ frontmatterAt(files, <<"pending", "a.md">>).epic = Undefined
  /\ frontmatterAt(files, <<"pending", "a.md">>).title = Undefined
  /\ result.data = {[path |-> <<"pending", "a.md">>,
                     issues |-> <<"Missing required field: title">>]}

(***************************************************************************)
(* Type checks (C30).                                                      *)
(***************************************************************************)
ListKeys == {"key_files", "requirements", "human_testing_steps", "constraints", "depends_on"}

\* values that are not lists
Scalars == {Num("5"), Num("0"), Bool("true"), Bool("false"), Str("x"), Str("")}

\* values that are none of the six statuses
NoStatuses == {Str("bogus"), Str("in-progress"), Str(""), Num("0"), Bool("false"), Num("5")}

\* validate reports the issue on the header
Reports(frontmatter, filePath, issue) ==
  \E i \in DOMAIN validateTicket(frontmatter, SeedBody, filePath) :
    validateTicket(frontmatter, SeedBody, filePath)[i] = issue

\* C30 (as stated): validate reports a type issue whenever key_files,
\* requirements, human_testing_steps, constraints or depends_on is present with
\* a value that is not a list, be it a number, a boolean or a string, and
\* whenever status is present with a value outside the six.
ValidateReportsEveryWrongType ==
  Serving =>
    \A filePath \in listTicketFiles(files) :
      ~files[filePath].malformed =>
        /\ \A k \in ListKeys, v \in Scalars :
             Reports([frontmatterAt(files, filePath) EXCEPT ![k] = v], filePath,
                     k \o " must be a list")
        /\ \A v \in NoStatuses :
             Reports([frontmatterAt(files, filePath) EXCEPT !.status = v], filePath,
                     formatInvalidStatus(v))

(***************************************************************************)
(* Target resolution.                                                      *)
(***************************************************************************)
\* the ticket files whose decoded id is the one asked for
Holders(fs, id) ==
  {filePath \in DOMAIN fs :
     /\ filePath[1] \in Folders
     /\ IsMarkdown(filePath[2])
     /\ String(normalizeFrontmatter(parseFrontmatter(fs[filePath]).frontmatter).id) = id}

\* the handler answered for the file at filePath
AnsweredFor(outcome, filePath) ==
  /\ outcome.reply.ok
  /\ outcome.reply.path = filePath

\* C31: the path of a request takes precedence over its id: with both, the
\* ticket is the file at the path, and the answer is "Ticket not found" if the
\* path names no file, also when the id names a ticket of the store; with the id
\* alone, the ticket is a file whose decoded id is the id, "Ticket not found"
\* if there is none.
PathTakesPrecedenceOverId ==
  Serving =>
    /\ \A params \in PathAndId(files) :
         /\ \A outcome \in getTicket(files, params) :
              IF params.path \in DOMAIN files THEN AnsweredFor(outcome, params.path)
              ELSE NotFound(outcome)
         /\ params.path \notin DOMAIN files =>
              /\ \A request \in MoveRequests :
                   \A outcome \in moveTicket(files, params, request.args, request.entry, Now) :
                     NotFound(outcome)
              /\ \A request \in ClaimRequests :
                   \A outcome \in claimTicket(files, params, request.args, request.entry, Now) :
                     NotFound(outcome)
    /\ \A id \in Ids \cup {"T-9"} :
         \A outcome \in getTicket(files, Target(NoPath, id)) :
           IF Holders(files, id) = {} THEN NotFound(outcome)
           ELSE \E filePath \in Holders(files, id) : AnsweredFor(outcome, filePath)

\* a get that carried a path naming no file and the id of a ticket of the store
\* has been answered "Ticket not found"
GetByMissingPathAndKnownId ==
  /\ result.op = "get"
  /\ ~result.ok
  /\ result.error = "Ticket not found"
  /\ getParams.path \notin DOMAIN files
  /\ getParams.path # NoPath
  /\ Holders(files, getParams.id) # {}

(***************************************************************************)
(* Index regeneration and the replies of the handlers.                     *)
(***************************************************************************)
\* a handler has returned in this step
Returned == handled' = handled + 1

\* C32: index regeneration is fire-and-forget: a mutation that returns ok has
\* started one regeneration, which has neither listed the files nor written
\* INDEX.md when the result is returned; a regeneration that fails leaves the
\* result returned and every ticket file as they were; a mutation that returns
\* an error, and a reconcile that changed no file, start no regeneration.
RegenerationIsFireAndForget ==
  [][/\ (Returned /\ result'.ok /\ result'.op \in {"move", "claim"}) =>
          /\ regenerations' = Append(regenerations, Started)
          /\ indexFile' = indexFile
     /\ swallowed' # swallowed => files' = files /\ result' = result
     /\ (Returned /\ (~result'.ok \/ (result'.op = "reconcile" /\ result'.changed = 0))) =>
          regenerations' = regenerations]_vars

\* a move has been answered ok and the regeneration it started failed later
RegenerationFailedAfterOk ==
  /\ result.op = "move"
  /\ result.ok
  /\ swallowed > 0
  /\ regenerations = <<>>

(***************************************************************************)
(* Two claims of one ticket.                                               *)
(***************************************************************************)
\* the work log entries of kind claim of the ticket file at a path
ClaimEntries(fs, filePath) ==
  {i \in DOMAIN workLogAt(fs, filePath) : workLogAt(fs, filePath)[i].kind = "claim"}

\* the ways a request names the ticket id kept in the file at filePath
Naming(filePath, id) == {Target(filePath, ""), Target(NoPath, id), Target(filePath, id)}

\* the tickets of the store that are pending, valid, and the only holder of their id
PendingTickets ==
  {filePath \in listTicketFiles(files) :
     /\ frontmatterAt(files, filePath).status = Str("pending")
     /\ issuesAt(files, filePath) = <<>>
     /\ Holders(files, String(frontmatterAt(files, filePath).id)) = {filePath}}

\* C33: claim is mutually exclusive in one server process: the handler has no
\* await, so of two claim requests for one pending ticket, by id or by path and
\* from different actors, the one handled first returns ok and the other
\* returns an error and writes nothing; the ticket's claimed_by is the actor of
\* the first, and its work log has gained exactly one claim entry.
ClaimIsMutuallyExclusive ==
  Serving =>
    \A filePath \in PendingTickets :
      \A first, second \in Naming(filePath, String(frontmatterAt(files, filePath).id)) :
        \A winner, loser \in {"alice", " bob "} :
          winner # loser =>
            \A granted \in claimTicket(files, first, winner, "", Now) :
              /\ granted.reply.ok
              /\ frontmatterAt(granted.fs, granted.reply.path).claimed_by = Str(trim(winner))
              /\ Cardinality(ClaimEntries(granted.fs, granted.reply.path))
                   = Cardinality(ClaimEntries(files, filePath)) + 1
              /\ \A refused \in claimTicket(granted.fs, second, loser, "", Now + 1) :
                   /\ ~refused.reply.ok
                   /\ refused.reply.error # ""
                   /\ refused.fs = granted.fs

\* T-1 was claimed by the first of two claim requests and the second was refused
SecondClaimRefused ==
  /\ handled = 2
  /\ result.op = "claim"
  /\ ~result.ok
  /\ \E filePath \in Holders(files, "T-1") :
       /\ filePath[1] = "in_progress"
       /\ frontmatterAt(files, filePath).claimed_by \in {Str("alice"), Str("bob")}
       /\ Cardinality(ClaimEntries(files, filePath)) = 1

(***************************************************************************)
(* The README workflow: next_id, then create.                              *)
(***************************************************************************)
\* every client has its answer to create
AllCreated == Len(clients) = MaxClients /\ \A i \in DOMAIN clients : clients[i].created # ""

\* C34: in the README workflow, clients of one server that all call next_id
\* before any of them calls create are suggested the same id; of their create
\* requests with that id at most one returns ok, and once all are answered the
\* store holds exactly one ticket with that id (on stores where no file has
\* the name create gives the new ticket).
SuggestedIdIsCreatedOnce ==
  /\ \A i, j \in DOMAIN clients : clients[i].id = clients[j].id
  /\ Cardinality({i \in DOMAIN clients : clients[i].created = "ok"}) <= 1
  /\ \A i \in DOMAIN clients : Cardinality(Holders(files, clients[i].id)) <= 1
  /\ AllCreated => \A i \in DOMAIN clients : Cardinality(Holders(files, clients[i].id)) = 1

\* two clients were suggested the same id; the create of one was answered ok
\* and the create of the other "Ticket id already exists"
SecondCreateRefused ==
  /\ AllCreated
  /\ \E i, j \in DOMAIN clients :
       /\ clients[i].id = clients[j].id
       /\ clients[i].created = "ok"
       /\ clients[j].created = "error"
  /\ result.op = "create"
  /\ result.error = "Ticket id already exists: " \o clients[1].id

(***************************************************************************)
(* Relocation and the other tickets of the store.                          *)
(***************************************************************************)
\* every file of the store before, other than the ticket's, is in the store
\* after with the content it had
OthersKept(before, after, filePath) ==
  \A other \in DOMAIN before \ {filePath} :
    other \in DOMAIN after /\ after[other] = before[other]

\* C35 (as stated): after a successful move, claim or apply-mode reconcile of
\* a ticket, every other ticket that was in the store is still present with
\* unchanged content, also when a file with the same relative name exists in
\* the destination folder.
RelocationKeepsOtherTickets ==
  Serving =>
    \A filePath \in listTicketFiles(files) :
      /\ \A request \in MoveRequests :
           LET outcome == moveTicketAt(files, filePath, request.args, request.entry, Now)
           IN outcome.reply.ok => OthersKept(files, outcome.fs, filePath)
      /\ \A request \in ClaimRequests :
           LET outcome == claimTicketAt(files, filePath, request.args, request.entry, Now)
           IN outcome.reply.ok => OthersKept(files, outcome.fs, filePath)
      /\ LET reconciled == reconcileTicketAtPath(files, filePath, TRUE, Now)
         IN reconciled.report.changed => OthersKept(files, reconciled.fs, filePath)

(***************************************************************************)
(* Relocation in two steps.                                                *)
(***************************************************************************)
\* C36 (as stated): a relocating operation (move, claim, apply-mode reconcile)
\* writes the destination file before it deletes the source file, so in every
\* state, between the two steps and after them, a file holding the relocated
\* ticket exists: the ticket is never absent from the store.
RelocatedTicketNeverAbsent ==
  relocating # <<>> => Holders(files, relocating[1].ticket) # {}

(***************************************************************************)
(* The frame of move, claim and append_worklog.                            *)
(***************************************************************************)
\* the header keys a handler may change
MoveFrame(request) ==
  {"status", "updated_at"} \cup (IF request.entry # <<>> THEN {"work_log"} ELSE {})

ClaimFrame == {"status", "claimed_by", "claimed_at", "updated_at", "work_log"}

AppendFrame == {"updated_at", "work_log"}

\* the header and the body stored in the file at a path
StoredHeader(fs, filePath) == parseFrontmatter(fs[filePath]).frontmatter

StoredBodyOf(fs, filePath) == parseFrontmatter(fs[filePath]).body

\* the outcome is ok and the file written holds, outside the frame, the header
\* given, and the body of the file at filePath
Framed(outcome, filePath, frame, header) ==
  outcome.reply.ok =>
    /\ \A k \in Keys \ frame : StoredHeader(outcome.fs, outcome.reply.path)[k] = header[k]
    /\ StoredBodyOf(outcome.fs, outcome.reply.path) = StoredBodyOf(files, filePath)

\* every successful move, claim and append_worklog of the ticket files of the
\* store keeps, outside its frame, the header that before(filePath) names
FrameKept(storedBefore) ==
  \A filePath \in listTicketFiles(files) :
    LET header == IF storedBefore THEN StoredHeader(files, filePath)
                  ELSE readTicket(files, filePath).frontmatter
    IN /\ \A request \in MoveRequests :
            Framed(moveTicketAt(files, filePath, request.args, request.entry, Now),
                   filePath, MoveFrame(request), header)
       /\ \A request \in ClaimRequests :
            Framed(claimTicketAt(files, filePath, request.args, request.entry, Now),
                   filePath, ClaimFrame, header)
       /\ \A request \in AppendRequests :
            Framed([appendTicketWorklogAt(files, filePath, request.entry, Now,
                                          Now + request.args) EXCEPT !.reply.path = filePath],
                   filePath, AppendFrame, header)

\* C37 (as stated): a successful move changes only status, updated_at and, when
\* a work_log_entry is given, work_log; a successful claim only status,
\* claimed_by, claimed_at, updated_at and work_log; a successful append_worklog
\* only updated_at and work_log; every other header field and the body are the
\* same as before the operation.
FrameKeepsStoredHeader == Serving => FrameKept(TRUE)

\* C37: outside its frame, a successful move, claim or append_worklog writes
\* every header field as it was read, the legacy key feature folded into an
\* absent or empty epic, and the body as it was.
FrameKeepsHeaderAsRead == Serving => FrameKept(FALSE)

\* a claim has rewritten a ticket that had the legacy key feature and no epic:
\* the file now holds an epic, the value of feature
ClaimStoredFoldedEpic ==
  /\ result.op = "claim"
  /\ result.ok
  /\ StoredHeader(files, result.path).feature = Str("auth")
  /\ StoredHeader(files, result.path).epic = Str("auth")

(***************************************************************************)
(* The freshness of the suggested id.                                      *)
(***************************************************************************)
\* no client has had an answer to create
NoneCreated == \A i \in DOMAIN clients : clients[i].created = ""

\* the create just answered is the first one after the calls of next_id
FirstCreateAnswered ==
  /\ result.op = "create"
  /\ Cardinality({i \in DOMAIN clients : clients[i].created # ""}) = 1

\* C38: the id next_id suggests for the default prefix and separator is the id
\* of no ticket of the store, as long as no create has intervened, and the
\* first create issued with it is not answered "Ticket id already exists".
SuggestedIdIsFresh ==
  /\ NoneCreated => \A i \in DOMAIN clients : Holders(files, clients[i].id) = {}
  /\ FirstCreateAnswered => ~StartsWith(result.error, "Ticket id already exists")

(***************************************************************************)
(* The status state machine.                                               *)
(***************************************************************************)
\* the ticket files of the store the validator has no issue with
ValidTickets(fs) ==
  {filePath \in listTicketFiles(fs) :
     /\ readTicket(fs, filePath).parseError = ""
     /\ validateTicket(readTicket(fs, filePath).frontmatter, readTicket(fs, filePath).body,
                       filePath) = <<>>}

\* params.work_log_entry of a move: absent, or an entry that validates as it
\* is given (move appends the entry with the at it has)
MoveEntries == {<<>>, <<DatedEntry>>}

CreatedFileLiesInStatusFolder ==
  (strictMode /\ result.op = "create" /\ result.ok) =>
    /\ result.path \in DOMAIN files
    /\ result.path[1] = STATUS_TO_FOLDER(String(frontmatterAt(files, result.path).status))
    /\ result.path \in findTicketById(files, String(frontmatterAt(files, result.path).id))

====
